---- MODULE Spec2Model ----
(***************************************************************************)
(* Model of the GPU interaction engine of Tissue Forge                     *)
(* (source/mdcore/src/tfRunner_cuda.cu): tabulated potential evaluation,   *)
(* construction of the task list and of the cell-pair lists, and the       *)
(* per-step kernel pipeline (sort, flux sub-steps, self, pair-left,        *)
(* pair-right, state integration).                                         *)
(*                                                                         *)
(* Arithmetic: the code computes in single precision; the model computes   *)
(* in exact integer (fixed-point) arithmetic, with float -> unsigned       *)
(* conversions modelled as truncation.                                     *)
(***************************************************************************)
EXTENDS Integers, Sequences, FiniteSets, TLC

VARIABLES
    \* ---- tabulated potential evaluator ----
    pot,            \* the PotentialData handed to potential_eval_ex_cuda
    pin,            \* its arguments: [r, ri, rj]
    pres,           \* its outputs (*e, *f) and the table access it made
    \* ---- engine_cuda_load ----
    s_tasks,        \* s->tasks, the task list of the space
    gpuid,          \* s->cells[c].GPUID
    did,            \* the device whose task list is built
    tasks_cuda,     \* tasks_cuda[] as linked by engine_cuda_load
    cellpairs,      \* the cell-pair lists uploaded by engine_cuda_load
    \* ---- host side of a step ----
    cfg,            \* engine configuration: nr_blocks, nr_threads, nr_states,
                    \* nr_fluxsteps, species flags per type, registered flux
    parts,          \* s->cells[c].parts: per cell, the particles [x, typ]
    fvec,           \* state_vector->fvec of each particle (concentrations)
    qvec,           \* state_vector->q of each particle (accumulated flux)
    disp,           \* displacement of each particle since the last rebuild
    verlet_rebuild, \* e->s.verlet_rebuild
    step,           \* number of calls of engine_nonbond_cuda started
    pc,             \* "ready", "dev" (kernels in flight) or "done"
    \* ---- device ----
    kq,             \* kernels launched into the stream and not yet complete
    launch,         \* number of kernels of this step already complete
    blk,            \* per thread block: the cell of its next loop iteration
    cuda_cflags,    \* cuda_cflags[c]
    sortlists,      \* cuda_sortlists, the list of direction SidX of each cell
    sortStamp,      \* the step in which a cell's list was last written
    dev_states,     \* cuda_part_states
    dev_fluxes,     \* fluxes_next_cuda
    \* ---- record of the current step ----
    wlog,           \* accumulator writes: launch, block, thread, task, target
    tested,         \* particle pairs that reached the distance test
    execs,          \* how often each task ran in the current launch
    reads,          \* sort lists read by pair tasks, with their stamp
    walls,          \* wall interactions evaluated: particle, face, distance
    \* ---- energy and forces ----
    junk,           \* the value an uninitialised register holds in this run
    cuda_epot,      \* cuda_epot, in halves of the energy unit
    s_epot,         \* e->s.epot, in halves of the energy unit
    dev_forces,     \* forces_cuda, x component of each particle
    pforce,         \* p->f of each particle, x component
    \* ---- refresh of the device image ----
    refresh,        \* the refresh in progress: which tables, and how far it is
    \* ---- vertex model ----
    mesh,           \* the Mesh: surfaces of each body, bodies of each surface
    solver,         \* the MeshSolver: _isDirty, isDirty of its meshes
    \* ---- particle-state buffers ----
    alloc           \* the host and device buffers of the particle states

potVars  == <<pot, pin, pres>>
loadVars == <<s_tasks, gpuid, did, tasks_cuda, cellpairs>>
hostVars == <<cfg, parts, fvec, qvec, disp, verlet_rebuild, step, pc>>
devVars  == <<kq, launch, blk, cuda_cflags, sortlists, sortStamp, dev_states, dev_fluxes>>
logVars  == <<wlog, tested, execs, reads, walls>>
engVars  == <<junk, cuda_epot, s_epot, dev_forces, pforce>>
stepVars == <<hostVars, devVars, logVars, engVars>>
meshVars == <<mesh, solver>>
sideVars == <<meshVars, alloc>>
vars     == <<potVars, loadVars, stepVars, refresh, sideVars>>

\* No refresh is in progress and the tables on the device are loaded.
NoRefresh == [kind |-> "none", phase |-> "idle"]

\* The vertex model and the particle-state buffers are not part of the
\* specifications of the engine's step: their variables are held at these
\* values there.
SideIdle == mesh = <<>> /\ solver = <<>> /\ alloc = <<>>

\* The step pipeline is not part of the specifications of the evaluator and
\* of the loader: its variables are held at these values there.
StepIdle ==
    /\ cfg = <<>> /\ parts = <<>> /\ fvec = <<>> /\ qvec = <<>> /\ disp = <<>>
    /\ verlet_rebuild = FALSE /\ step = 0 /\ pc = "idle"
    /\ kq = <<>> /\ launch = 0 /\ blk = <<>> /\ cuda_cflags = <<>>
    /\ sortlists = <<>> /\ sortStamp = <<>> /\ dev_states = <<>> /\ dev_fluxes = <<>>
    /\ wlog = {} /\ tested = {} /\ execs = <<>> /\ reads = {} /\ walls = {}
    /\ junk = 0 /\ cuda_epot = 0 /\ s_epot = 0 /\ dev_forces = <<>> /\ pforce = <<>>

Min(a, b) == IF a <= b THEN a ELSE b

(***************************************************************************)
(* engine_cuda_load: task list and cell-pair lists                         *)
(***************************************************************************)

\* Number of cells of the space (s->nr_cells); cells are 0..NrCells-1.
NrCells == 3
\* Number of devices the space is split over (e->nr_devices).
NrDevices == 2
\* Largest number of pair tasks of an input task list.
MaxPairs == 2
\* The sort direction (sid) of the pair tasks of the model: column 4 of
\* cuda_shift, the +x neighbour.
SidX == 4

Cells   == 0..(NrCells - 1)
Devices == 0..(NrDevices - 1)

SortTask(c)       == [type |-> "sort", i |-> c, j |-> -1, flags |-> 0]
SelfTask(c)       == [type |-> "self", i |-> c, j |-> -1, flags |-> 0]
PairTask(i, j, f) == [type |-> "pair", i |-> i, j |-> j, flags |-> f]

RECURSIVE SeqOfSet(_)
SeqOfSet(S) ==
    IF S = {} THEN <<>>
    ELSE LET x == CHOOSE y \in S : \A z \in S : y.i < z.i \/ (y.i = z.i /\ y.j <= z.j)
         IN  <<x>> \o SeqOfSet(S \ {x})

\* Lines 3971-3989: the tasks kept for device did (pairs and selfs of cells
\* of another device are skipped, all sorts are kept), copied with wait = 0,
\* nr_unlock = 0, and a sort's flags cleared.
RECURSIVE SelectTasks(_, _, _)
SelectTasks(ts, gid, dv) ==
    IF ts = <<>> THEN <<>>
    ELSE LET t == Head(ts)
             skip == (t.type = "pair" /\ gid[t.i] # dv)
                        \/ (t.type = "self" /\ gid[t.i] # dv)
             tc == [type |-> t.type, i |-> t.i, j |-> t.j, wait |-> 0,
                    flags |-> IF t.type = "sort" THEN 0 ELSE t.flags,
                    sids |-> {}, unlock |-> <<>>]
         IN  (IF skip THEN <<>> ELSE <<tc>>) \o SelectTasks(Tail(ts), gid, dv)

\* Lines 3991-3995: cellsorts[c] is the position of the (last) sort task of c.
CellSorts(tc) ==
    [c \in Cells |->
        LET S == {k \in 1..Len(tc) : tc[k].type = "sort" /\ tc[k].i = c}
        IN  IF S = {} THEN 0 ELSE CHOOSE k \in S : \A m \in S : m <= k]

\* One iteration of the loop of lines 4018-4031 that links only cell i.
LinkOne_onlyI(tc, cs, k) ==
    IF tc[k].type # "pair" THEN tc
    ELSE [tc EXCEPT ![cs[tc[k].i]].sids = @ \cup {tc[k].flags},
                    ![cs[tc[k].i]].unlock = Append(@, k)]

\* One iteration of the loop of lines 4018-4031: pair task k is appended to
\* the unlock list of the sort of its cell i and of its cell j, and its sid
\* is or-ed into their flags.
LinkOne(tc, cs, k) ==
    IF tc[k].type # "pair" THEN tc
    ELSE LET t1 == [tc EXCEPT ![cs[tc[k].i]].sids = @ \cup {tc[k].flags},
                              ![cs[tc[k].i]].unlock = Append(@, k)]
         IN  [t1 EXCEPT ![cs[tc[k].j]].sids = @ \cup {tc[k].flags},
                        ![cs[tc[k].j]].unlock = Append(@, k)]

RECURSIVE LinkPairs(_, _, _)
LinkPairs(tc, cs, k) ==
    IF k > Len(tc) THEN tc ELSE LinkPairs(LinkOne(tc, cs, k), cs, k + 1)

\* Lines 4033-4036: wait of a task = number of unlock entries naming it.
RECURSIVE CountIn(_, _)
CountIn(sq, x) ==
    IF sq = <<>> THEN 0
    ELSE (IF Head(sq) = x THEN 1 ELSE 0) + CountIn(Tail(sq), x)

RECURSIVE SumWaits(_, _, _)
SumWaits(tc, x, k) ==
    IF k > Len(tc) THEN 0 ELSE CountIn(tc[k].unlock, x) + SumWaits(tc, x, k + 1)

SetWaits(tc) == [k \in 1..Len(tc) |-> [tc[k] EXCEPT !.wait = SumWaits(tc, k, 1)]]

\* The task list of device did as engine_cuda_load leaves it (lines 3971-4036).
BuildTasksCuda(ts, gid, dv) ==
    LET sel == SelectTasks(ts, gid, dv)
    IN  SetWaits(LinkPairs(sel, CellSorts(sel), 1))

\* Lines 4041-4048: cellpair_map_left[t.i] gets (t.j, t.flags) and
\* cellpair_map_right[t.j] gets (t.i, t.flags), in task order.
RECURSIVE PairsOfCell(_, _, _)
PairsOfCell(tc, c, side) ==
    IF tc = <<>> THEN <<>>
    ELSE LET t == Head(tc)
             hit == t.type = "pair" /\ (IF side = "left" THEN t.i = c ELSE t.j = c)
             e == [x |-> IF side = "left" THEN t.j ELSE t.i, y |-> t.flags]
         IN  (IF hit THEN <<e>> ELSE <<>>) \o PairsOfCell(Tail(tc), c, side)

\* Lines 4057-4072: the flattened list with the offset and the count of each
\* cell; cell c's entries are list[ind[c] + 1 .. ind[c] + count[c]].
RECURSIVE Flatten(_, _, _, _)
Flatten(tc, side, c, acc) ==
    IF c >= NrCells THEN acc
    ELSE LET cp == PairsOfCell(tc, c, side)
         IN  Flatten(tc, side, c + 1,
                     [list  |-> acc.list \o cp,
                      ind   |-> Append(acc.ind, Len(acc.list)),
                      count |-> Append(acc.count, Len(cp))])

EmptyFlat == [list |-> <<>>, ind |-> <<>>, count |-> <<>>]

BuildCellPairs(tc) ==
    [left  |-> Flatten(tc, "left", 0, EmptyFlat),
     right |-> Flatten(tc, "right", 0, EmptyFlat)]

\* Entry j (0-based) of cell c in a flattened cell-pair list.
CellPairCount(fl, c)  == fl.count[c + 1]
CellPairEntry(fl, c, j) == fl.list[fl.ind[c + 1] + j + 1]

\* Input task lists: one sort and one self task per cell, and a set of at
\* most MaxPairs pair tasks between distinct cells.
CandidatePairs == {PairTask(i, j, SidX) : i, j \in Cells} \ {PairTask(i, i, SidX) : i \in Cells}

TaskLists ==
    LET sorts == [c \in 1..NrCells |-> SortTask(c - 1)]
        selfs == [c \in 1..NrCells |-> SelfTask(c - 1)]
    IN  UNION { {sorts \o selfs \o SeqOfSet(P), SeqOfSet(P) \o selfs \o sorts} :
                P \in {Q \in SUBSET CandidatePairs : Cardinality(Q) <= MaxPairs} }

(***************************************************************************)
(* Tabulated potential evaluator                                           *)
(***************************************************************************)

\* Number of floats per interval of a potential table: c[0] = centre,
\* c[1] = scale, c[2..7] = polynomial coefficients (highest degree first).
potential_chunk == 8

\* Fixed-point representation of 1.0 for distances and radii.
FPOne == 2
\* Largest separation r (fixed point) handed to the evaluator.
MaxR == 12
\* Largest number of intervals of an input table.
MaxIntervals == 2
\* Width of one table interval (fixed point).
IntervalWidth == 2

\* (int) fmaxf(0.0f, num / den), den > 0
IndexOf(num, den) == IF num <= 0 THEN 0 ELSE num \div den

\* Horner evaluation of one interval, lines 940-950:
\*   x = (r - c[0]) * c[1]; ee = c[2]*x + c[3]; eff = c[2];
\*   for k in 4..potential_chunk-1: eff = eff*x + ee; ee = ee*x + c[k]
RECURSIVE Horner(_, _, _, _, _)
Horner(c, x, ee, eff, k) ==
    IF k >= potential_chunk THEN [ee |-> ee, eff |-> eff]
    ELSE Horner(c, x, ee * x + c[k + 1], eff * x + ee, k + 1)

\* potential_eval_ex_cuda with the upper bound test removed.
potential_eval_ex_cuda_noupper(p, ri, rj, r0) ==
    LET r1  == IF "SCALED" \in p.flags THEN (r0 * FPOne) \div (ri + rj)
               ELSE IF "SHIFTED" \in p.flags THEN r0 - (ri + rj) + p.r0
               ELSE r0
        r   == IF r1 < p.a THEN p.a ELSE r1
        ind == IndexOf(p.alpha[1] + r * (p.alpha[2] + r * p.alpha[3]), p.alphaDen)
        c   == p.c[ind + 1]
        x   == (r - c[1]) * c[2]
        h   == Horner(c, x, c[3] * x + c[4], c[3], 4)
    IN  IF ind > p.n
        THEN [e |-> 0, fnum |-> 0, fden |-> 1, ind |-> -1, r |-> r, reff |-> r1]
        ELSE [e |-> h.ee, fnum |-> h.eff * c[2], fden |-> r0, ind |-> ind, r |-> r,
              reff |-> r1]

\* potential_eval_ex_cuda with the test of the index against p.n removed; a
\* read past the last chunk of the table returns zeros here.
potential_eval_ex_cuda_nolen(p, ri, rj, r0) ==
    LET r1  == IF "SCALED" \in p.flags THEN (r0 * FPOne) \div (ri + rj)
               ELSE IF "SHIFTED" \in p.flags THEN r0 - (ri + rj) + p.r0
               ELSE r0
        r   == IF r1 < p.a THEN p.a ELSE r1
        ind == IndexOf(p.alpha[1] + r * (p.alpha[2] + r * p.alpha[3]), p.alphaDen)
        c   == IF ind + 1 \in DOMAIN p.c THEN p.c[ind + 1] ELSE <<0, 0, 0, 0, 0, 0, 0, 0>>
        x   == (r - c[1]) * c[2]
        h   == Horner(c, x, c[3] * x + c[4], c[3], 4)
    IN  IF r > p.b
        THEN [e |-> 0, fnum |-> 0, fden |-> 1, ind |-> -1, r |-> r, reff |-> r1]
        ELSE [e |-> h.ee, fnum |-> h.eff * c[2], fden |-> r0, ind |-> ind, r |-> r,
              reff |-> r1]

\* potential_eval_ex_cuda(PotentialData p, ri, rj, r2, *e, *f).  The argument
\* r0 is sqrt(r2) > 0 (r = r2 * rsqrtf(r2)).  The result records *e, *f as the
\* fraction fnum / fden (f = eff * c[1] * ir), the interval read (ind, -1 when
\* the table is not read), the distance r used for the lookup and the
\* scaled / shifted distance reff before clamping.
potential_eval_ex_cuda(p, ri, rj, r0) ==
    LET r1  == IF "SCALED" \in p.flags THEN (r0 * FPOne) \div (ri + rj)
               ELSE IF "SHIFTED" \in p.flags THEN r0 - (ri + rj) + p.r0
               ELSE r0
        \* cutoff min value, eval at lowest func interpolation
        r   == IF r1 < p.a THEN p.a ELSE r1
        ind == IndexOf(p.alpha[1] + r * (p.alpha[2] + r * p.alpha[3]), p.alphaDen)
        c   == p.c[ind + 1]
        x   == (r - c[1]) * c[2]
        h   == Horner(c, x, c[3] * x + c[4], c[3], 4)
    IN  IF r > p.b
        THEN [e |-> 0, fnum |-> 0, fden |-> 1, ind |-> -1, r |-> r, reff |-> r1]
        ELSE IF ind > p.n
        THEN [e |-> 0, fnum |-> 0, fden |-> 1, ind |-> -1, r |-> r, reff |-> r1]
        ELSE [e |-> h.ee, fnum |-> h.eff * c[2], fden |-> r0, ind |-> ind, r |-> r,
              reff |-> r1]

\* Input tables: n intervals of width IntervalWidth over [a, b], n + 1 chunks
\* (tfRunner_cuda.cu:526), interval i centred at a + i*w + w/2 with the linear
\* polynomial k1 * x + k0, and the index map ind = (r - a) / w.
PotTable(flags, a, n, k1, k0) ==
    [flags    |-> flags,
     a        |-> a,
     b        |-> a + n * IntervalWidth,
     r0       |-> a,
     alpha    |-> <<0 - a, 1, 0>>,
     alphaDen |-> IntervalWidth,
     n        |-> n,
     c        |-> [i \in 1..(n + 1) |->
                     <<a + (i - 1) * IntervalWidth + IntervalWidth \div 2, 1,
                       0, 0, 0, 0, k1, k0>>]]

PotInputs ==
    { PotTable(fl, a, n, k1, k0) :
        fl \in {{}, {"SCALED"}, {"SHIFTED"}}, a \in {2, 4},
        n \in 1..MaxIntervals, k1 \in {-1, 2}, k0 \in {3} }

NoResult == [e |-> 0, fnum |-> 0, fden |-> 1, ind |-> -2, r |-> 0, reff |-> 0]

InitPot ==
    /\ pot \in PotInputs
    /\ pin \in [r : 1..MaxR, ri : {1, 2}, rj : {1}]
    /\ pres = NoResult
    /\ s_tasks = <<>>
    /\ gpuid = <<>>
    /\ did = 0
    /\ tasks_cuda = <<>>
    /\ cellpairs = <<>>
    /\ StepIdle
    /\ refresh = NoRefresh /\ SideIdle

\* One call of potential_eval_ex_cuda.
PotEval ==
    /\ pres = NoResult
    /\ pres' = potential_eval_ex_cuda(pot, pin.ri, pin.rj, pin.r)
    /\ UNCHANGED <<pot, pin, loadVars, stepVars>>
    /\ UNCHANGED <<refresh, sideVars>>

NextPot == PotEval

SpecPot == InitPot /\ [][NextPot]_vars

C7_Witness ==
    /\ pres # NoResult
    /\ pres.reff > pot.b
    /\ pres.e = 0

SHRT_MAX == 32767
\* Edge length unit of a cell: h = (CellEdge, 2 CellEdge, 2 CellEdge),
\* so that sqrt(h.h) = 3 CellEdge.
CellEdge == 2000
\* s->cutoff, in position units.
Cutoff == 3
\* Largest displacement of a particle between two rebuilds of the sort lists
\* (the Verlet skin, s->maxdx).
MaxDx == 1
\* Initially particles lie within Window position units of a face of their
\* cell.
Window == 3

cuda_h      == <<CellEdge, 2 * CellEdge, 2 * CellEdge>>
HNorm       == 3 * CellEdge
cuda_dim    == <<NrCells * CellEdge, 2 * CellEdge, 2 * CellEdge>>
cuda_cutoff2 == Cutoff * Cutoff

\* dscale = SHRT_MAX / (3 * sqrt(h.h)) as the fraction DScaleNum / DScaleDen
\* (line 3946); (unsigned int)(dscale * v) for v >= 0 is truncation.
DScaleNum == SHRT_MAX
\* The scale sized by the edge of a cell instead of three times its diagonal.
DScaleDen_edge == CellEdge
DScaleDen == 3 * HNorm
Quantize(v) == IF v <= 0 THEN 0 ELSE (DScaleNum * v) \div DScaleDen

\* dmaxdist = 2 + dscale * cutoff, stored as unsigned int (line 3947).
cuda_dmaxdist == 2 + Quantize(Cutoff)

\* Line 1778 for sid = SidX: cuda_shiftn = (1, 0, 0) and
\* nshift = |cuda_shift * cuda_h| = h[1]; the key is
\* (unsigned int)(dscale * (nshift + x)).
SortKey(x) == Quantize(cuda_h[1] + x)

\* sort entry (k << 16) | key, and its two halves.
Pack(k, key) == k * 65536 + (key % 65536)
KeyOf(e)     == e % 65536
IdxOf(e)     == e \div 65536

\* compare-exchange of a[ind], a[jnd] (0-based) when jnd < count: the larger
\* key goes to ind (lines 333-338, 349-354).
CmpSwap(a, ind, jnd) ==
    IF jnd < Len(a) /\ KeyOf(a[ind + 1]) < KeyOf(a[jnd + 1])
    THEN [a EXCEPT ![ind + 1] = a[jnd + 1], ![jnd + 1] = a[ind + 1]]
    ELSE a

\* First step of stage k (lines 330-339), i = 0..count-1.
RECURSIVE SortFirst(_, _, _)
SortFirst(a, k, i) ==
    IF i >= Len(a) THEN a
    ELSE LET lo == i % k
             hi == i - lo
         IN  SortFirst(CmpSwap(a, i + hi, 2 * (hi + k) - lo - 1), k, i + 1)

\* One second step with stride j (lines 346-355).
RECURSIVE SortSecondI(_, _, _)
SortSecondI(a, j, i) ==
    IF i >= Len(a) THEN a
    ELSE LET hi == i - (i % j)
         IN  SortSecondI(CmpSwap(a, i + hi, i + hi + j), j, i + 1)

\* The second steps of a stage cut down to the first stride.
SortSecond_once(a, j) ==
    IF j <= 0 THEN a ELSE SortSecondI(a, j, 0)

\* Second steps j = k/2, k/4, ..., 1 (lines 345-357).
RECURSIVE SortSecond(_, _)
SortSecond(a, j) ==
    IF j <= 0 THEN a ELSE SortSecond(SortSecondI(a, j, 0), j \div 2)

\* cuda_sort_descending (lines 317-364): stages k = 1, 2, 4, ... < count.
RECURSIVE SortStages(_, _)
SortStages(a, k) ==
    IF k >= Len(a) THEN a
    ELSE SortStages(SortSecond(SortFirst(a, k, 0), k \div 2), 2 * k)

cuda_sort_descending(a) == SortStages(a, 1)

\* runner_dosort_cuda (lines 1759-1786) for sid = SidX: pack the particles of
\* a cell (xs = their positions, entry k is local index k - 1) and sort.
runner_dosort_cuda(xs) ==
    cuda_sort_descending([k \in 1..Len(xs) |-> Pack(k - 1, SortKey(xs[k]))])

\* shift[0] of a cell pair (lines 2592-2598): origin difference, wrapped by
\* the box length; dshift = (unsigned int)(dscale * shift . shiftn[sid])
\* (lines 2599-2603).
PairShift(cid, cjd) ==
    LET d == cjd * cuda_h[1] - cid * cuda_h[1]
    IN  IF 2 * d > cuda_dim[1] THEN d - cuda_dim[1]
        ELSE IF 2 * d < 0 - cuda_dim[1] THEN d + cuda_dim[1]
        ELSE d

PairDShift(cid, cjd) == Quantize(PairShift(cid, cjd))

\* The distance test of the passes (lines 1842, 1952, 2062, 2137, 2198, 2432).
WithinCutoff_always(r2) == TRUE

WithinCutoff(r2) == r2 < cuda_cutoff2

\* Loop condition of the left walk (lines 1831, 2049): continue while
\* (sort_j[k] & 0xffff) + dshift < cuda_dmaxdist + di.
LeftWalkCond(kj, dshift, di) == kj + dshift < cuda_dmaxdist + di

\* Loop condition of the right walk (lines 1941, 2124): continue while
\* di + dshift <= cuda_dmaxdist + (sort_j[k] & 0xffff).
RightWalkCond(kj, dshift, di) == di + dshift <= cuda_dmaxdist + kj

\* The entries of sort_j the left walk visits for a particle with key di:
\* k = count_j - 1 down to the first k whose condition fails (0-based k).
RECURSIVE LeftWalk(_, _, _, _)
LeftWalk(sort_j, dshift, di, k) ==
    IF k < 0 THEN <<>>
    ELSE IF ~LeftWalkCond(KeyOf(sort_j[k + 1]), dshift, di) THEN <<>>
    ELSE <<IdxOf(sort_j[k + 1])>> \o LeftWalk(sort_j, dshift, di, k - 1)

\* The entries of the other cell's list the right walk visits: k = 0 up to
\* the first k whose condition fails.
RECURSIVE RightWalk(_, _, _, _)
RightWalk(sort_j, dshift, di, k) ==
    IF k >= Len(sort_j) THEN <<>>
    ELSE IF ~RightWalkCond(KeyOf(sort_j[k + 1]), dshift, di) THEN <<>>
    ELSE <<IdxOf(sort_j[k + 1])>> \o RightWalk(sort_j, dshift, di, k + 1)

(***************************************************************************)
(* Specification of engine_cuda_load over input task lists                 *)
(***************************************************************************)

NoPot == [flags |-> {}, a |-> 0, b |-> 0]

InitLoad ==
    /\ s_tasks \in TaskLists
    /\ gpuid \in [Cells -> Devices]
    /\ did \in Devices
    /\ tasks_cuda = <<>>
    /\ cellpairs = <<>>
    /\ pot = NoPot
    /\ pin = [r |-> 1, ri |-> 1, rj |-> 1]
    /\ pres = NoResult
    /\ StepIdle
    /\ refresh = NoRefresh /\ SideIdle

\* engine_cuda_load, the part that builds the task list and the cell-pair
\* lists of device did.
Load ==
    /\ cellpairs = <<>>
    /\ tasks_cuda' = BuildTasksCuda(s_tasks, gpuid, did)
    /\ cellpairs' = BuildCellPairs(tasks_cuda')
    /\ UNCHANGED <<s_tasks, gpuid, did, potVars, stepVars>>
    /\ UNCHANGED <<refresh, sideVars>>

NextLoad == Load

SpecLoad == InitLoad /\ [][NextLoad]_vars

Loaded == cellpairs # <<>>

\* C8: after the task list is built, every pair task has wait = 2 and is
\* exactly once in the unlock list of the sort task of each of its two cells.
C8_PairWaitsOnTwoSorts ==
    Loaded =>
        \A k \in 1..Len(tasks_cuda) :
            tasks_cuda[k].type = "pair" =>
                /\ tasks_cuda[k].wait = 2
                /\ \A c \in {tasks_cuda[k].i, tasks_cuda[k].j} :
                     \E s \in 1..Len(tasks_cuda) :
                        /\ tasks_cuda[s].type = "sort"
                        /\ tasks_cuda[s].i = c
                        /\ CountIn(tasks_cuda[s].unlock, k) = 1
                /\ \A s \in 1..Len(tasks_cuda) :
                     CountIn(tasks_cuda[s].unlock, k) > 0 =>
                        /\ tasks_cuda[s].type = "sort"
                        /\ tasks_cuda[s].i \in {tasks_cuda[k].i, tasks_cuda[k].j}

C8_Witness ==
    /\ Loaded
    /\ Cardinality({k \in 1..Len(tasks_cuda) : tasks_cuda[k].type = "pair"}) >= 2
    /\ \E k \in 1..Len(tasks_cuda) : tasks_cuda[k].type = "pair" /\ tasks_cuda[k].wait = 2

(***************************************************************************)
(* Flux evaluation and state integration                                   *)
(***************************************************************************)

\* state::SpeciesFlags: the flag word of a species is the or of its flag
\* bits; SPECIES_CONSTANT is the bit 1 << 3 of a species held constant and
\* SPECIES_KONSTANT the mask SPECIES_BOUNDARY | SPECIES_CONSTANT = 1 | 8.
SPECIES_CONSTANT == 8
SPECIES_KONSTANT == 9

\* e->dt_flux is 1 / DtFluxDen.
DtFluxDen == 4
\* Initial concentrations (fixed point) of the particles of the model.
ConcHi == 300
ConcLo == 100

\* Fixed-point quotient, rounded towards zero.
TruncDiv(n, d) == IF n >= 0 THEN n \div d ELSE 0 - ((0 - n) \div d)

Abs(v) == IF v < 0 THEN 0 - v ELSE v

RECURSIVE BitAnd(_, _)
BitAnd(a, b) ==
    IF a = 0 \/ b = 0 THEN 0
    ELSE (a % 2) * (b % 2) + 2 * BitAnd(a \div 2, b \div 2)

ZeroVec(n)   == [k \in 1..n |-> 0]
VecAdd(u, v) == [k \in 1..Len(u) |-> u[k] + v[k]]

\* flux_fick_cuda, flux_secrete_cuda, flux_uptake_cuda (lines 1622-1640):
\* the factor that multiplies *result.
FluxKind(f, si, sj, res) ==
    CASE f.kind = "FICK"    -> res * f.coef * (si - sj)
      [] f.kind = "SECRETE" -> LET q == f.coef * (si - f.target)
                               IN  IF q > 0 THEN res * q ELSE 0
      [] f.kind = "UPTAKE"  -> LET q == f.coef * (f.target - sj) * si
                               IN  IF q > 0 THEN res * q ELSE 0

\* The loop of flux_eval_ex_cuda (lines 1657-1687) from term i on.  term is
\* (cutoff - r)^2, that is (1 - r/cutoff)^2 in units of 1/cutoff^2, and the
\* accumulator qv is kept in units of 1/(2 cutoff^2), so that
\* q - 0.5 * decay * states_i[qind] becomes 2 q - decay * cutoff^2 * states_i.
RECURSIVE FluxTerms(_, _, _, _, _, _, _)
FluxTerms(tm, i, term, states_i, states_j, type_i, qv) ==
    IF i > Len(tm) THEN qv
    ELSE LET f     == tm[i]
             first == type_i = f.a
             qind  == IF first THEN f.ia ELSE f.ib
             ssi   == IF first THEN states_i[qind + 1] ELSE states_j[f.ia + 1]
             ssj   == IF first THEN states_j[f.ib + 1] ELSE states_i[qind + 1]
             q     == FluxKind(f, ssi, ssj, IF first THEN 0 - term ELSE term)
         IN  FluxTerms(tm, i + 1, term, states_i, states_j, type_i,
                       [qv EXCEPT ![qind + 1] =
                            @ + 2 * q - f.decay * cuda_cutoff2 * states_i[qind + 1]])

\* flux_eval_ex_cuda (lines 1643-1688); only fluxes.fluxes[0] is used.
flux_eval_ex_cuda(fx, r, states_i, states_j, type_i, type_j, qvec_i) ==
    FluxTerms(fx, 1, (Cutoff - r) * (Cutoff - r), states_i, states_j, type_i, qvec_i)

\* cuda_fxind[type_i * maxtype + type_j]: non-zero when a flux is registered
\* for the pair of types, in either order.
FxInd(fx, ti, tj) ==
    IF \E i \in 1..Len(fx) : {fx[i].a, fx[i].b} = {ti, tj} THEN 1 ELSE 0

\* One element of runner_run_cuda_integrate_state_kernel (lines 2933-2936):
\* state + dt_flux * fluxes[i] * (1.0 - float(species_flags[i] & SPECIES_KONSTANT)).
\* fluxes[i] is kept in units of 1/(2 cutoff^2).
IntegrateOne(state, flux, flags) ==
    state + TruncDiv(flux * (1 - BitAnd(flags, SPECIES_KONSTANT)),
                     2 * cuda_cutoff2 * DtFluxDen)

\* An accumulator that keeps its content through the integration.
FluxAfterIntegrate_kept(flux) == flux

\* fluxes[i] = 0.0 at the end of the integration of element i (line 2936).
FluxAfterIntegrate(flux) == 0

\* The host integrator of the concentrations, which runs between two calls of
\* engine_nonbond_cuda: a species with a constant or boundary flag is held.
HostIntegrateOne(state, q, flags) ==
    IF BitAnd(flags, SPECIES_KONSTANT) # 0 THEN state
    ELSE state + TruncDiv(q, 2 * cuda_cutoff2 * DtFluxDen)

(***************************************************************************)
(* The kernels of one call of engine_nonbond_cuda                          *)
(***************************************************************************)

\* dim3 nr_blocks(std::min(e->nrtasks_cuda[did], e->nr_blocks[did])) (line 3139)
GridDim == Min(Len(tasks_cuda), cfg.nr_blocks)
Blocks  == 0..(GridDim - 1)

\* Thread that runs iteration i of a loop
\* for(i = threadIdx.x; i < count; i += blockDim.x).
ThreadOf(i) == i % cfg.nr_threads

\* All blocks start at the same cell.
FirstCell_zero(b) == 0

\* First cell of block b: cid = blockIdx.x (lines 2472, 2494, 2580, 2764).
FirstCell(b) == b

\* A stride one larger than the grid.
NextCell_skip(cid) == cid + GridDim + 1

\* cid += gridDim.x
NextCell(cid) == cid + GridDim

\* inds[k] = inds[k-1] + counts[k-1] (lines 3014-3016)
RECURSIVE Inds(_)
Inds(c) == IF c = 0 THEN 0 ELSE Inds(c - 1) + Len(parts[c - 1])

NrParts == Inds(NrCells)

\* The stream of kernels of one step with the sort after the pair kernels.
Launches_sortlast(rebuild, nr_states, nr_fluxsteps) ==
    <<"self", "pair_left", "pair_right">> \o (IF rebuild THEN <<"sort">> ELSE <<>>)

\* Sub-steps without the integration kernel.
RECURSIVE SubSteps_nointegrate(_)
SubSteps_nointegrate(n) ==
    IF n <= 0 THEN <<>>
    ELSE <<"self_fluxonly", "pair_left_fluxonly", "pair_right_fluxonly">>
            \o SubSteps_nointegrate(n - 1)

\* The kernels of n flux sub-steps (lines 3145-3151).
RECURSIVE SubSteps(_)
SubSteps(n) ==
    IF n <= 0 THEN <<>>
    ELSE <<"self_fluxonly", "pair_left_fluxonly", "pair_right_fluxonly", "integrate">>
            \o SubSteps(n - 1)

\* The kernels launched into the stream by one call (lines 3141-3163).
Launches(rebuild, nr_states, nr_fluxsteps) ==
    (IF rebuild THEN <<"sort">> ELSE <<>>)
      \o (IF nr_states > 0 /\ nr_fluxsteps > 1 THEN SubSteps(nr_fluxsteps - 1) ELSE <<>>)
      \o <<"self", "pair_left", "pair_right">>

SelfKernels  == {"self", "self_fluxonly"}
LeftKernels  == {"pair_left", "pair_left_fluxonly"}
RightKernels == {"pair_right", "pair_right_fluxonly"}
PairKernels  == LeftKernels \cup RightKernels

\* The accumulators a kernel adds to.
Bufs(kern) ==
    IF kern \in {"self_fluxonly", "pair_left_fluxonly", "pair_right_fluxonly"}
    THEN {"flux"}
    ELSE IF cfg.nr_states > 0 THEN {"force", "flux"} ELSE {"force"}

\* A partner particle k of cell q at separation dx from the particle whose
\* loop visits it: r2 and sqrtf(r2), its state vector and its type.  The
\* device copy of the positions is the host's (uploaded at the start of the
\* call, lines 3020-3090); the host does not move particles during the call.
Partner(q, k, dx) ==
    [cj |-> q, pj |-> k, dx |-> dx, r2 |-> dx * dx, r |-> Abs(dx),
     st |-> dev_states[Inds(q) + k + 1], typ |-> parts[q][k + 1].typ]

\* runner_doself_cuda / runner_doself_state_cuda: particle i of cell c visits
\* every k # i of the cell (lines 2190-2191, 2418-2419).
SelfSlots(c) ==
    LET n == Len(parts[c])
    IN  [s \in 1..n |->
            [pid |-> s - 1,
             ps  |-> [m \in 1..(n - 1) |->
                        LET k == IF m < s THEN m - 1 ELSE m
                        IN  Partner(c, k, parts[c][s].x - parts[c][k + 1].x)]]]

\* runner_dopair_left_cuda / runner_dopair_state_left_cuda for the pair
\* (cid, cjd): entry i of sort_i is particle spid of cid with key di; it walks
\* sort_j from its end (lines 1815-1840, 2034-2060).
LeftSlots(cid, cjd) ==
    LET shift  == PairShift(cid, cjd)
        dshift == PairDShift(cid, cjd)
        sort_i == sortlists[cid]
        sort_j == sortlists[cjd]
    IN  [s \in 1..Len(parts[cid]) |->
            LET spid == IdxOf(sort_i[s])
                pix  == parts[cid][spid + 1].x - shift
                wk   == LeftWalk(sort_j, dshift, KeyOf(sort_i[s]), Len(parts[cjd]) - 1)
            IN  [pid |-> spid,
                 ps  |-> [m \in 1..Len(wk) |->
                            Partner(cjd, wk[m], pix - parts[cjd][wk[m] + 1].x)]]]

\* runner_dopair_right_cuda / runner_dopair_state_right_cuda for the pair
\* (cid, cjd), called with the roles of the cells exchanged (lines 2809-2817):
\* entry i of the list of cjd walks the list of cid from its start
\* (lines 1925-1950, 2109-2135).
RightSlots(cid, cjd) ==
    LET shift  == PairShift(cid, cjd)
        dshift == PairDShift(cid, cjd)
        sort_i == sortlists[cjd]
        sort_j == sortlists[cid]
    IN  [s \in 1..Len(parts[cjd]) |->
            LET spid == IdxOf(sort_i[s])
                pix  == parts[cjd][spid + 1].x + shift
                wk   == RightWalk(sort_j, dshift, KeyOf(sort_i[s]), 0)
            IN  [pid |-> spid,
                 ps  |-> [m \in 1..Len(wk) |->
                            Partner(cid, wk[m], pix - parts[cid][wk[m] + 1].x)]]]

\* The flux a particle accumulates over the partners it visits: the body of
\* the inner loops of the state passes (lines 2062-2070, 2137-2145, 2432-2440).
RECURSIVE AccumFlux(_, _, _, _)
AccumFlux(ps, pis, ti, acc) ==
    IF ps = <<>> THEN acc
    ELSE LET q == Head(ps)
         IN  AccumFlux(Tail(ps), pis, ti,
                IF WithinCutoff(q.r2) /\ FxInd(cfg.flux, ti, q.typ) # 0
                THEN flux_eval_ex_cuda(cfg.flux, q.r, pis, q.st, ti, q.typ, acc)
                ELSE acc)

\* fluxes_i[nr_states * spid + k] += pifx[k] for the entries of a task, one
\* after the other (lines 2074-2075, 2149-2150, 2445-2446).  The particle
\* spid belongs to cell own; fluxes_i points at the entries of cell tgt in
\* the flat buffer.
RECURSIVE SlotFluxes(_, _, _, _, _)
SlotFluxes(fl, tgt, own, slots, i) ==
    IF i > Len(slots) THEN fl
    ELSE LET pid == slots[i].pid
             add == AccumFlux(slots[i].ps, dev_states[Inds(own) + pid + 1],
                              parts[own][pid + 1].typ, ZeroVec(cfg.nr_states))
             g   == Inds(tgt) + pid + 1
         IN  SlotFluxes(IF g \in DOMAIN fl THEN [fl EXCEPT ![g] = VecAdd(@, add)] ELSE fl,
                        tgt, own, slots, i + 1)

NrEvaluated(ps) == Cardinality({m \in 1..Len(ps) : WithinCutoff(ps[m].r2)})

\* The cell whose accumulators the right pass of a pair (cid, cjd) adds to:
\* forces_j = &forces[4*indj], fluxes_j = &fluxes[nr_states * indj]
\* (lines 2807, 2825, 2909).
RightOwner_i(cid, cjd) == cid

RightOwner(cid, cjd) == cjd

\* The accumulator writes of a task run by block b: entry i of the loop is
\* run by thread i % blockDim.x and adds to particle pid of cell own.
SlotWrites(kern, b, task, tgt, slots) ==
    { [launch |-> launch, kern |-> kern, b |-> b, t |-> ThreadOf(i - 1),
       task |-> task, cell |-> tgt, pid |-> slots[i].pid, buf |-> buf,
       nev |-> NrEvaluated(slots[i].ps)] :
         i \in 1..Len(slots), buf \in Bufs(kern) }

\* The pairs of a task that reached the distance test, with its outcome.
SlotTested(kern, own, slots) ==
    UNION { { [kern |-> kern, ci |-> own, pi |-> slots[i].pid,
               cj |-> slots[i].ps[m].cj, pj |-> slots[i].ps[m].pj,
               r2 |-> slots[i].ps[m].r2, ev |-> WithinCutoff(slots[i].ps[m].r2)] :
                 m \in 1..Len(slots[i].ps) } : i \in 1..Len(slots) }

BagAdd(bg, k) ==
    [x \in (DOMAIN bg) \cup {k} |->
        IF x \in DOMAIN bg THEN (IF x = k THEN bg[x] + 1 ELSE bg[x]) ELSE 1]


\* The effect of one task on the device and on the record of the step.
Effect(fl, w, t, x, r) == [fl |-> fl, w |-> w, t |-> t, x |-> x, r |-> r]

RunTask(acc, kern, b, task, tgt, own, slots, rd) ==
    Effect(IF "flux" \in Bufs(kern) THEN SlotFluxes(acc.fl, tgt, own, slots, 1) ELSE acc.fl,
           acc.w \cup SlotWrites(kern, b, task, tgt, slots),
           acc.t \cup SlotTested(kern, own, slots),
           BagAdd(acc.x, task),
           acc.r \cup {[cell |-> c, stamp |-> sortStamp[c], step |-> step] : c \in rd})

\* The loop over the cell pairs of cell c in a pair kernel, from entry j on
\* (lines 2584-2657, 2684-2740, 2768-2841, 2868-2924).
RECURSIVE RunPairs(_, _, _, _, _)
RunPairs(acc, kern, b, c, j) ==
    LET left == kern \in LeftKernels
        fl   == IF left THEN cellpairs.left ELSE cellpairs.right
    IN  IF j >= CellPairCount(fl, c) THEN acc
        ELSE LET e   == CellPairEntry(fl, c, j)
                 cid == IF left THEN c ELSE e.x
                 cjd == IF left THEN e.x ELSE c
                 task == <<"pair", cid, cjd, e.y>>
             IN  RunPairs(
                    IF left
                    THEN RunTask(acc, kern, b, task, cid, cid, LeftSlots(cid, cjd),
                                 {cid, cjd})
                    ELSE RunTask(acc, kern, b, task, RightOwner(cid, cjd), cjd,
                                 RightSlots(cid, cjd), {cid, cjd}),
                    kern, b, c, j + 1)

\* The potential of the particle pairs of the step pipeline: one table for
\* every pair of types (cuda_pind, lines 2211-2221), radii 1.
StepPot == PotTable({}, 1, 1, -1, 3)

\* The values an uninitialised register can hold.
Indeterminate == {0, 1}

\* potential_eval_super_ex_cuda for one partner (lines 1397-1405): the energy
\* e added to *epot and f * dx.x subtracted from fi[0], with dx = +-r along x.
\* The layouts the energies and forces are examined on hold no two particles
\* at the same position.
PairEval(q) ==
    LET v == potential_eval_ex_cuda(StepPot, 1, 1, q.r)
    IN  [e  |-> v.e,
         fx |-> IF q.dx > 0 THEN v.fnum ELSE IF q.dx < 0 THEN 0 - v.fnum ELSE 0]

\* The loop of one particle over its partners in a force pass (lines
\* 2191-2236, 1831-1881, 1941-1991): epot += ee and pif[0] -= f * dx.x for
\* each partner within the cutoff.
RECURSIVE AccumForce(_, _)
AccumForce(ps, acc) ==
    IF ps = <<>> THEN acc
    ELSE LET q == Head(ps)
         IN  AccumForce(Tail(ps),
                IF WithinCutoff(q.r2)
                THEN [e |-> acc.e + PairEval(q).e, fx |-> acc.fx - PairEval(q).fx]
                ELSE acc)

\* The additions of a task to a force that lose what the other tasks added
\* before: what forces[4*i + k] += pif[k] stores when its read is overtaken.
RECURSIVE SlotForces_lost(_, _, _, _)
SlotForces_lost(fo, tgt, slots, i) ==
    IF i > Len(slots) THEN fo
    ELSE LET add == AccumForce(slots[i].ps, [e |-> 0, fx |-> 0])
             g   == Inds(tgt) + slots[i].pid + 1
         IN  SlotForces_lost([f |-> IF g \in DOMAIN fo.f
                                    THEN [fo.f EXCEPT ![g] = add.fx] ELSE fo.f,
                              e |-> fo.e + add.e],
                             tgt, slots, i + 1)

\* forces[4*i + k] += pif[k] for the entries of a task (lines 2239-2241,
\* 1884-1887, 1994-1997) and *epot_global += epot (lines 2248, 1892, 2002).
\* fo.f is the force buffer, fo.e the energy summed over the threads.
RECURSIVE SlotForces(_, _, _, _)
SlotForces(fo, tgt, slots, i) ==
    IF i > Len(slots) THEN fo
    ELSE LET add == AccumForce(slots[i].ps, [e |-> 0, fx |-> 0])
             g   == Inds(tgt) + slots[i].pid + 1
         IN  SlotForces([f |-> IF g \in DOMAIN fo.f
                               THEN [fo.f EXCEPT ![g] = @ + add.fx] ELSE fo.f,
                         e |-> fo.e + add.e],
                        tgt, slots, i + 1)

\* The forces and energies of the cell pairs of cell c in a pair kernel, from
\* entry j on (lines 2584-2657, 2768-2841).
RECURSIVE PairForces(_, _, _, _)
PairForces(fo, kern, c, j) ==
    LET left == kern \in LeftKernels
        fl   == IF left THEN cellpairs.left ELSE cellpairs.right
    IN  IF j >= CellPairCount(fl, c) THEN fo
        ELSE LET e   == CellPairEntry(fl, c, j)
                 cid == IF left THEN c ELSE e.x
                 cjd == IF left THEN e.x ELSE c
             IN  PairForces(
                    IF left
                    THEN SlotForces(fo, cid, LeftSlots(cid, cjd), 1)
                    ELSE SlotForces(fo, RightOwner(cid, cjd), RightSlots(cid, cjd), 1),
                    kern, c, j + 1)

\* float epot; of runner_run_cuda_do_self_kernel (line 2492) has no
\* initialiser and the pair kernels start from epot = 0.0f (lines 2567,
\* 2751): the value each thread of a block starts its energy sum from.
EpotInit(kern) == IF kern = "self" THEN junk ELSE 0

\* Flag bits of a cell that mark it as lying on the lower and on the upper
\* face of the box along x, and their union.
cell_active_left  == 2
cell_active_right == 4
cell_active_any   == 6

\* The flag bit of face 0 (left) and of face 1 (right).
FaceFlag(face) == IF face = 0 THEN cell_active_left ELSE cell_active_right

\* Both flagged faces at the distance to the left face.
boundary_eval_cuda_samedist(px, typ, cell_dim, cell_flags) ==
    (IF BitAnd(cell_flags, cell_active_left) # 0 /\ cfg.bc_pots[0][typ] > 0
     THEN <<[face |-> 0, r |-> px, dx |-> px]>> ELSE <<>>)
      \o (IF BitAnd(cell_flags, cell_active_right) # 0 /\ cfg.bc_pots[1][typ] > 0
          THEN <<[face |-> 1, r |-> px, dx |-> 0 - px]>> ELSE <<>>)

\* boundary_eval_cuda (lines 1549-1621) along x: the wall interactions of a
\* particle at px (relative to the origin of its cell) of type typ in a cell
\* of extent cell_dim with flag word cell_flags, in the order they are
\* evaluated: the face, the distance r and the vector dx handed to
\* boundary_eval_cuda_ex_cuda.  cfg.bc_pots[face][typ] is nr_pots of
\* cuda_pind_bcs[face] for the type (no DPD potentials).
boundary_eval_cuda(px, typ, cell_dim, cell_flags) ==
    (IF BitAnd(cell_flags, cell_active_left) # 0 /\ cfg.bc_pots[0][typ] > 0
     THEN <<[face |-> 0, r |-> px, dx |-> px]>> ELSE <<>>)
      \o (IF BitAnd(cell_flags, cell_active_right) # 0 /\ cfg.bc_pots[1][typ] > 0
          THEN <<[face |-> 1, r |-> cell_dim - px, dx |-> 0 - (cell_dim - px)]>>
          ELSE <<>>)

\* runner_doboundary_self_cuda (lines 2361-2391) for cell c: the wall
\* interactions of each particle of the cell.
BoundarySlots(c) ==
    [s \in 1..Len(parts[c]) |->
        [pid |-> s - 1,
         ps  |-> boundary_eval_cuda(parts[c][s].x, parts[c][s].typ, cuda_h[1],
                                    cuda_cflags[c])]]

\* _boundary_eval_cuda_ex_cuda_p for the wall interactions ws of a particle
\* (lines 1476-1496): force[0] -= f * dx.x and *epot += e for each, the
\* potential evaluated at r2 = r * r.
RECURSIVE AccumWall(_, _)
AccumWall(ws, acc) ==
    IF ws = <<>> THEN acc
    ELSE AccumWall(Tail(ws),
            [e  |-> acc.e + PairEval(Head(ws)).e,
             fx |-> acc.fx - PairEval(Head(ws)).fx])

\* forces[4*i + k] += pjf[k] for the particles of cell c (lines 2380-2382)
\* and *epot_global += epot.
RECURSIVE BoundaryForces(_, _, _)
BoundaryForces(fo, c, i) ==
    IF i > Len(parts[c]) THEN fo
    ELSE LET add == AccumWall(BoundarySlots(c)[i].ps, [e |-> 0, fx |-> 0])
         IN  BoundaryForces([f |-> [fo.f EXCEPT ![Inds(c) + i] = @ + add.fx],
                             e |-> fo.e + add.e],
                            c, i + 1)

\* The record of the wall interactions of cell c.
WallsOf(c) ==
    UNION { { [cell |-> c, pid |-> BoundarySlots(c)[s].pid,
               face |-> BoundarySlots(c)[s].ps[m].face,
               r |-> BoundarySlots(c)[s].ps[m].r] :
                 m \in 1..Len(BoundarySlots(c)[s].ps) } : s \in 1..Len(parts[c]) }

\* The self kernel calls runner_doboundary_self_cuda for the cells with an
\* active face (lines 2506-2518); the flux-only self kernel does not.
RunsBoundary(kern, c) ==
    kern = "self" /\ BitAnd(cuda_cflags[c], cell_active_any) # 0

\* The host arrays of a per-cell quantity, flattened in cell order, and back.
RECURSIVE Flat(_, _)
Flat(h, c) == IF c >= NrCells THEN <<>> ELSE h[c] \o Flat(h, c + 1)

Unflat(a) == [c \in Cells |-> [k \in 1..Len(parts[c]) |-> a[Inds(c) + k]]]

\* Cell and local index of the particle at flat index g (0-based).
CellOf(g) == CHOOSE c \in Cells : Inds(c) <= g /\ g < Inds(c) + Len(parts[c])

\* runner_run_cuda_integrate_state_kernel (lines 2929-2938): block b, thread t
\* handles the elements i = blockDim.x * b + t, + stride, ... < nr_fluxes;
\* with one state per particle element i is particle i.
IntegrateElems(b) ==
    {i \in 0..(cfg.nr_states * NrParts - 1) :
        (i % (cfg.nr_threads * GridDim)) \div cfg.nr_threads = b}

FlagsOf(g) == cfg.species_flags[parts[CellOf(g)][g - Inds(CellOf(g)) + 1].typ]

(***************************************************************************)
(* Actions of the step pipeline                                            *)
(***************************************************************************)

\* Number of calls of engine_nonbond_cuda in a behaviour.
MaxSteps == 2

\* First part of engine_nonbond_cuda (lines 2996-3163): the particle data
\* are uploaded, the accumulators cleared and the kernels launched.
StepStart ==
    /\ pc = "ready"
    /\ step < MaxSteps
    /\ step' = step + 1
    /\ pc' = "dev"
    /\ dev_states' = Flat(fvec, 0)
    /\ dev_fluxes' = [g \in 1..NrParts |-> ZeroVec(cfg.nr_states)]
    /\ kq' = Launches(verlet_rebuild, cfg.nr_states, cfg.nr_fluxsteps)
    /\ launch' = 0
    /\ blk' = [b \in Blocks |-> FirstCell(b)]
    /\ wlog' = {} /\ tested' = {} /\ execs' = <<>> /\ reads' = {} /\ walls' = {}
    /\ cuda_epot' = 0
    /\ dev_forces' = [g \in 1..NrParts |-> 0]
    /\ UNCHANGED <<junk, s_epot, pforce>>
    /\ UNCHANGED <<cfg, parts, fvec, qvec, disp, verlet_rebuild>>
    /\ UNCHANGED <<cuda_cflags, sortlists, sortStamp>>
    /\ UNCHANGED <<potVars, loadVars>>
    /\ UNCHANGED <<refresh, sideVars>>

\* One iteration of the loop over cells of block b of the sort kernel
\* (lines 2472-2484).
SortBlock(b) ==
    LET c == blk[b]
    IN  /\ pc = "dev" /\ kq # <<>> /\ Head(kq) = "sort"
        /\ c < NrCells
        /\ IF cuda_cflags[c] # 0
           THEN /\ sortlists' = [sortlists EXCEPT ![c] =
                                    runner_dosort_cuda([k \in 1..Len(parts[c]) |-> parts[c][k].x])]
                /\ sortStamp' = [sortStamp EXCEPT ![c] = step]
           ELSE UNCHANGED <<sortlists, sortStamp>>
        /\ execs' = BagAdd(execs, <<"sort", c>>)
        /\ blk' = [blk EXCEPT ![b] = NextCell(c)]
        /\ UNCHANGED <<kq, launch, cuda_cflags, dev_states, dev_fluxes>>
        /\ UNCHANGED <<wlog, tested, reads, walls>>
        /\ UNCHANGED <<hostVars, engVars, potVars, loadVars>>
        /\ UNCHANGED <<refresh, sideVars>>

\* One iteration of the loop over cells of block b of a self kernel
\* (lines 2494-2537, 2544-2557) or of a pair kernel.
TaskBlock(b) ==
    LET c    == blk[b]
        kern == Head(kq)
        acc0 == Effect(dev_fluxes, wlog, tested, execs, reads)
        acc  == IF kern \in SelfKernels
                THEN RunTask(acc0, kern, b, <<"self", c>>, c, c, SelfSlots(c), {})
                ELSE RunPairs(acc0, kern, b, c, 0)
        fo0  == IF RunsBoundary(kern, c)
                THEN BoundaryForces([f |-> dev_forces, e |-> 0], c, 1)
                ELSE [f |-> dev_forces, e |-> 0]
        fo   == IF kern \in SelfKernels
                THEN SlotForces(fo0, c, SelfSlots(c), 1)
                ELSE PairForces(fo0, kern, c, 0)
    IN  /\ pc = "dev" /\ kq # <<>> /\ Head(kq) \in SelfKernels \cup PairKernels
        /\ c < NrCells
        /\ dev_fluxes' = acc.fl
        /\ wlog' = acc.w
        /\ tested' = acc.t
        /\ execs' = acc.x
        /\ reads' = acc.r
        /\ walls' = IF RunsBoundary(kern, c) THEN walls \cup WallsOf(c) ELSE walls
        /\ blk' = [blk EXCEPT ![b] = NextCell(c)]
        /\ IF "force" \in Bufs(kern)
           THEN /\ dev_forces' = fo.f
                \* atomicAdd(&cuda_epot, epot * 0.5f) by every thread of the
                \* block (lines 2539, 2660, 2844)
                /\ cuda_epot' = cuda_epot + fo.e
                                  + (IF c = FirstCell(b)
                                     THEN cfg.nr_threads * EpotInit(kern) ELSE 0)
           ELSE UNCHANGED <<dev_forces, cuda_epot>>
        /\ UNCHANGED <<junk, s_epot, pforce>>
        /\ UNCHANGED <<kq, launch, cuda_cflags, sortlists, sortStamp, dev_states>>
        /\ UNCHANGED <<hostVars, potVars, loadVars>>
        /\ UNCHANGED <<refresh, sideVars>>

\* Block b of the integration kernel (lines 2929-2938).
IntegrateBlock(b) ==
    LET E == IntegrateElems(b)
    IN  /\ pc = "dev" /\ kq # <<>> /\ Head(kq) = "integrate"
        /\ blk[b] < NrCells
        /\ dev_states' = [g \in 1..Len(dev_states) |->
                            IF g - 1 \in E
                            THEN <<IntegrateOne(dev_states[g][1], dev_fluxes[g][1],
                                                FlagsOf(g - 1))>>
                            ELSE dev_states[g]]
        /\ dev_fluxes' = [g \in 1..Len(dev_fluxes) |->
                            IF g - 1 \in E THEN <<FluxAfterIntegrate(dev_fluxes[g][1])>>
                            ELSE dev_fluxes[g]]
        /\ wlog' = wlog \cup
                    { [launch |-> launch, kern |-> "integrate", b |-> b,
                       t |-> i % cfg.nr_threads, task |-> <<"integrate">>,
                       cell |-> CellOf(i), pid |-> i - Inds(CellOf(i)),
                       buf |-> "flux", nev |-> 0] : i \in E }
        /\ blk' = [blk EXCEPT ![b] = NrCells]
        /\ UNCHANGED <<kq, launch, cuda_cflags, sortlists, sortStamp>>
        /\ UNCHANGED <<tested, execs, reads, walls>>
        /\ UNCHANGED <<hostVars, engVars, potVars, loadVars>>
        /\ UNCHANGED <<refresh, sideVars>>

\* The running kernel is complete when every block has left its loop; the
\* stream then starts the next kernel.
KernelComplete == \A b \in Blocks : blk[b] >= NrCells

KernelDone ==
    /\ pc = "dev" /\ kq # <<>>
    /\ KernelComplete
    /\ kq' = Tail(kq)
    /\ launch' = launch + 1
    /\ blk' = [b \in Blocks |-> FirstCell(b)]
    /\ execs' = <<>>
    /\ UNCHANGED <<cuda_cflags, sortlists, sortStamp, dev_states, dev_fluxes>>
    /\ UNCHANGED <<wlog, tested, reads, walls>>
    /\ UNCHANGED <<hostVars, engVars, potVars, loadVars>>
    /\ UNCHANGED <<refresh, sideVars>>

\* Last part of engine_nonbond_cuda (lines 3225-3329): after the stream has
\* drained, the fluxes are added to q and, with sub-steps, the states are
\* copied back to fvec.
StepEnd ==
    /\ pc = "dev" /\ kq = <<>>
    /\ pc' = "done"
    /\ qvec' = IF cfg.nr_states > 0
               THEN [c \in Cells |-> [k \in 1..Len(parts[c]) |->
                        VecAdd(qvec[c][k], dev_fluxes[Inds(c) + k])]]
               ELSE qvec
    /\ fvec' = IF cfg.nr_states > 0 /\ cfg.nr_fluxsteps > 1
               THEN Unflat(dev_states)
               ELSE fvec
    /\ s_epot' = s_epot + cuda_epot
    /\ pforce' = [c \in Cells |-> [k \in 1..Len(parts[c]) |->
                    pforce[c][k] + dev_forces[Inds(c) + k]]]
    /\ UNCHANGED <<junk, cuda_epot, dev_forces>>
    /\ UNCHANGED <<cfg, parts, disp, verlet_rebuild, step>>
    /\ UNCHANGED <<devVars, logVars, potVars, loadVars>>
    /\ UNCHANGED <<refresh, sideVars>>

\* The rest of the engine step, between two calls of engine_nonbond_cuda:
\* the host integrates q into fvec and clears q, moves the particles, and
\* the Verlet criterion either requests a rebuild of the sort lists or lets
\* them stand; without a rebuild no particle is further than maxdx from its
\* position at the last rebuild.  The forces and the energy of the call are
\* used up by the integrator and start from zero in the next engine step.
Advance ==
    /\ pc = "done"
    /\ step < MaxSteps
    /\ pc' = "ready"
    /\ \E nd \in [1..NrParts -> (0 - cfg.maxdx)..cfg.maxdx] :
         /\ \A c \in Cells : \A k \in 1..Len(parts[c]) :
               LET x == parts[c][k].x - disp[c][k] + nd[Inds(c) + k]
               IN  0 <= x /\ x < cuda_h[1]
         /\ parts' = [c \in Cells |-> [k \in 1..Len(parts[c]) |->
                        [parts[c][k] EXCEPT !.x = @ - disp[c][k] + nd[Inds(c) + k]]]]
         /\ \E rb \in BOOLEAN :
              /\ verlet_rebuild' = rb
              /\ disp' = [c \in Cells |-> [k \in 1..Len(parts[c]) |->
                            IF rb THEN 0 ELSE nd[Inds(c) + k]]]
    /\ fvec' = [c \in Cells |-> [k \in 1..Len(parts[c]) |->
                  [n \in 1..cfg.nr_states |->
                     HostIntegrateOne(fvec[c][k][n], qvec[c][k][n],
                                      cfg.species_flags[parts[c][k].typ])]]]
    /\ qvec' = [c \in Cells |-> [k \in 1..Len(parts[c]) |-> ZeroVec(cfg.nr_states)]]
    /\ pforce' = [c \in Cells |-> [k \in 1..Len(parts[c]) |-> 0]]
    /\ s_epot' = 0
    /\ UNCHANGED <<junk, cuda_epot, dev_forces>>
    /\ UNCHANGED <<cfg, step>>
    /\ UNCHANGED <<devVars, logVars, potVars, loadVars>>
    /\ UNCHANGED <<refresh, sideVars>>

NextStep ==
    \/ StepStart
    \/ \E b \in Blocks : SortBlock(b)
    \/ \E b \in Blocks : TaskBlock(b)
    \/ \E b \in Blocks : IntegrateBlock(b)
    \/ KernelDone
    \/ StepEnd
    \/ Advance

(***************************************************************************)
(* Initial states of the step pipeline                                     *)
(***************************************************************************)

\* The task list of a row of cells: a sort and a self task per cell and a
\* pair task (c, c + 1) of direction SidX for each two neighbours.
ChainTasks ==
    [c \in 1..NrCells |-> SortTask(c - 1)]
      \o [c \in 1..NrCells |-> SelfTask(c - 1)]
      \o [c \in 1..(NrCells - 1) |-> PairTask(c - 1, c, SidX)]

\* A particle x below the upper face of its cell, and x above the lower face.
Hi(a, typ) == [x |-> cuda_h[1] - a, typ |-> typ]
Lo(b, typ) == [x |-> b, typ |-> typ]

\* Cells 0 and 1 hold the particles p0 and p1, the other cells are empty.
TwoCells(p0, p1) ==
    [c \in Cells |-> IF c = 0 THEN p0 ELSE IF c = 1 THEN p1 ELSE <<>>]

\* The state after construction (engine_cuda_load done on a single device)
\* for particles ps with concentrations cs under configuration cf.  The sort
\* lists are allocated and not written (line 4108); the flag words of the
\* cells are fl (lines 3917-3939).
InitStepFlags(ps, cs, cf, fl) ==
    /\ pot = NoPot /\ pin = [r |-> 1, ri |-> 1, rj |-> 1] /\ pres = NoResult
    /\ s_tasks = ChainTasks
    /\ gpuid = [c \in Cells |-> 0]
    /\ did = 0
    /\ tasks_cuda = BuildTasksCuda(ChainTasks, [c \in Cells |-> 0], 0)
    /\ cellpairs = BuildCellPairs(BuildTasksCuda(ChainTasks, [c \in Cells |-> 0], 0))
    /\ cfg = cf
    /\ parts = ps
    /\ fvec = cs
    /\ qvec = [c \in Cells |-> [k \in 1..Len(ps[c]) |-> ZeroVec(cf.nr_states)]]
    /\ disp = [c \in Cells |-> [k \in 1..Len(ps[c]) |-> 0]]
    /\ verlet_rebuild = TRUE
    /\ step = 0
    /\ pc = "ready"
    /\ kq = <<>> /\ launch = 0 /\ blk = <<>>
    /\ cuda_cflags = fl
    /\ sortlists = [c \in Cells |-> [k \in 1..Len(ps[c]) |-> 0]]
    /\ sortStamp = [c \in Cells |-> 0]
    /\ dev_states = <<>> /\ dev_fluxes = <<>>
    /\ wlog = {} /\ tested = {} /\ execs = <<>> /\ reads = {} /\ walls = {}
    /\ junk \in Indeterminate
    /\ cuda_epot = 0 /\ s_epot = 0 /\ dev_forces = <<>>
    /\ pforce = [c \in Cells |-> [k \in 1..Len(ps[c]) |-> 0]]
    /\ refresh = NoRefresh /\ SideIdle

\* The same with a flag set in the flag word of every cell.
InitStepWith(ps, cs, cf) == InitStepFlags(ps, cs, cf, [c \in Cells |-> 1])

\* No face has a potential for any type.
NoBcPots == [face \in {0, 1} |-> [t \in {0, 1} |-> 0]]

Config(nb, nt, ns, nf, sf, fx, mdx) ==
    [nr_blocks |-> nb, nr_threads |-> nt, nr_states |-> ns, nr_fluxsteps |-> nf,
     species_flags |-> sf, flux |-> fx, maxdx |-> mdx, bc_pots |-> NoBcPots]

NoFlags == [t \in {0, 1} |-> 0]

\* No species: empty state vectors for the particles ps.
NoConc(ps) == [c \in Cells |-> [k \in 1..Len(ps[c]) |-> <<>>]]

\* Concentrations: hi for particle 0 of cell 0, lo for every other particle.
ConcOf(ps, hi, lo) ==
    [c \in Cells |-> [k \in 1..Len(ps[c]) |->
        <<IF c = 0 /\ k = 1 THEN hi ELSE lo>>]]

\* A single flux term between the types a and b on species 0.
FluxTerm(a, b, kind, decay) ==
    <<[a |-> a, b |-> b, ia |-> 0, ib |-> 0, kind |-> kind, coef |-> 1,
       target |-> 0, decay |-> decay]>>

\* ---- pair walks: two particles that move within the skin, one block of
\* one thread, with forces only or with a Fick flux and one sub-step ----
WalkLayouts ==
    { TwoCells(<<Hi(a, 0)>>, <<Lo(b, 0)>>) : a \in 1..Window, b \in 0..(Window - 1) }
      \cup { TwoCells(<<Hi(a, 0), Hi(b, 0)>>, <<>>) : a, b \in 1..Window }

InitWalk ==
    \E ps \in WalkLayouts :
        \/ InitStepWith(ps, NoConc(ps), Config(1, 1, 0, 1, NoFlags, <<>>, MaxDx))
        \/ InitStepWith(ps, ConcOf(ps, ConcHi, ConcLo),
                        Config(1, 1, 1, 2, NoFlags, FluxTerm(0, 0, "FICK", 0), MaxDx))

SpecWalk == InitWalk /\ [][NextStep]_vars

\* Squared distance of particle pi of cell ci and particle pj of cell cj, from
\* their positions in the box, with the minimum image along x.
PairDist2(ci, pi, cj, pj) ==
    LET d0 == (cj * cuda_h[1] + parts[cj][pj + 1].x) - (ci * cuda_h[1] + parts[ci][pi + 1].x)
        d  == IF 2 * d0 > cuda_dim[1] THEN d0 - cuda_dim[1]
              ELSE IF 2 * d0 < 0 - cuda_dim[1] THEN d0 + cuda_dim[1]
              ELSE d0
    IN  d * d

\* The record of a call describes the particles as they are until the host
\* moves them again.
InCall == pc \in {"dev", "done"}

PairTasksOf == {k \in 1..Len(tasks_cuda) : tasks_cuda[k].type = "pair"}

Reached(kern, ci, pi, cj, pj) ==
    \E rec \in tested :
        /\ rec.kern = kern
        /\ rec.ci = ci /\ rec.pi = pi /\ rec.cj = cj /\ rec.pj = pj

\* When a pair kernel is complete, every particle pair of every pair task
\* that lies within the cutoff has reached the distance test of that pass.
WalksReachPartners ==
    (pc = "dev" /\ kq # <<>> /\ Head(kq) \in PairKernels /\ KernelComplete) =>
        \A k \in PairTasksOf :
            LET i == tasks_cuda[k].i
                j == tasks_cuda[k].j
            IN  \A p \in 0..(Len(parts[i]) - 1) : \A q \in 0..(Len(parts[j]) - 1) :
                    PairDist2(i, p, j, q) < Cutoff * Cutoff =>
                        IF Head(kq) \in LeftKernels
                        THEN Reached(Head(kq), i, p, j, q)
                        ELSE Reached(Head(kq), j, q, i, p)

\* C1 (as stated): on every step, of a rebuild or between two rebuilds, the
\* walk over the neighbour cell's sorted list reaches the distance test for
\* every pair (p, q) of a pair task whose distance is below the cutoff.
C1_WalkReachesPartnerEveryStep == WalksReachPartners

\* The same on the steps that rebuild the sort lists only.
C1_WalkReachesPartnerOnRebuild == verlet_rebuild => WalksReachPartners

\* C2: a pair is evaluated, in the self, the pair-left and the pair-right
\* pass, for forces and for fluxes, only if its squared distance is below
\* the squared cutoff; a flux accumulator is non-zero only for a particle
\* with a partner below the cutoff.
C2_NoEvaluationBeyondCutoff ==
    InCall =>
    /\ \A rec \in tested :
          rec.ev => PairDist2(rec.ci, rec.pi, rec.cj, rec.pj) < Cutoff * Cutoff
    /\ \A w \in wlog :
          w.nev > 0 =>
            \E c \in Cells : \E q \in 0..(Len(parts[c]) - 1) :
                /\ <<c, q>> # <<w.cell, w.pid>>
                /\ PairDist2(w.cell, w.pid, c, q) < Cutoff * Cutoff
    /\ pc = "dev" =>
          \A c \in Cells : \A k \in 1..Len(parts[c]) :
            (\E n \in 1..cfg.nr_states : dev_fluxes[Inds(c) + k][n] # 0) =>
                \E c2 \in Cells : \E q \in 0..(Len(parts[c2]) - 1) :
                    /\ <<c2, q>> # <<c, k - 1>>
                    /\ PairDist2(c, k - 1, c2, q) < Cutoff * Cutoff

\* Witness: a pair beyond the cutoff reached the distance test of a pair walk
\* on a step that does not rebuild the lists, and was not evaluated.
C2_Witness ==
    /\ InCall
    /\ ~verlet_rebuild
    /\ \E rec \in tested :
          /\ rec.kern \in PairKernels
          /\ ~rec.ev
          /\ PairDist2(rec.ci, rec.pi, rec.cj, rec.pj) >= Cutoff * Cutoff

(***************************************************************************)
(* Scheduling: blocks and threads over the cells and the cell pairs        *)
(***************************************************************************)

\* Largest e->nr_blocks and e->nr_threads.
MaxBlocks  == 2
MaxThreads == 2
\* Largest e->nr_fluxsteps.
MaxFluxSteps == 3

\* Particles at rest (maxdx = 0) in three cells; a particle of cell 0 has a
\* partner within the cutoff in its own cell and one in cell 1.
SchedLayouts ==
    { [c \in Cells |-> IF c = 0 THEN <<Hi(1, 0), Hi(2, 0)>>
                       ELSE IF c = 1 THEN <<Lo(0, 0)>> ELSE <<>>],
      [c \in Cells |-> IF c = 0 THEN <<Hi(2, 0)>>
                       ELSE IF c = 1 THEN <<Lo(1, 0), Lo(0, 0), Lo(3, 0)>>
                       ELSE IF c = 2 THEN <<Hi(1, 0)>> ELSE <<>>] }

InitSched ==
    \E ps \in SchedLayouts, nb \in 1..MaxBlocks, nt \in 1..MaxThreads :
        \/ InitStepWith(ps, NoConc(ps), Config(nb, nt, 0, 1, NoFlags, <<>>, 0))
        \/ \E nf \in 1..MaxFluxSteps :
             InitStepWith(ps, ConcOf(ps, ConcHi, ConcLo),
                          Config(nb, nt, 1, nf, NoFlags, FluxTerm(0, 0, "FICK", 0), 0))

SpecSched == InitSched /\ [][NextStep]_vars

Contributors(c, pid, buf) ==
    { w.task : w \in { v \in wlog : v.cell = c /\ v.pid = pid /\ v.buf = buf
                                      /\ v.nev > 0 } }

\* C5 (as stated): in one step the accumulator of each particle is written by
\* exactly one task.  (Only the writes that add an evaluated pair count here.)
C5_OneWriterTaskPerStep ==
    InCall =>
        \A c \in Cells : \A k \in 1..Len(parts[c]) : \A buf \in {"force", "flux"} :
            Cardinality(Contributors(c, k - 1, buf)) <= 1

\* A write w is made by a task that owns the cell of the particle: the self
\* task of the cell, a pair task in the left pass with the cell as its i, or
\* a pair task in the right pass with the cell as its j.
OwnerWrite(w) ==
    \/ w.kern = "integrate"
    \/ w.kern \in SelfKernels /\ w.task = <<"self", w.cell>>
    \/ w.kern \in LeftKernels /\ w.task[1] = "pair" /\ w.task[2] = w.cell
    \/ w.kern \in RightKernels /\ w.task[1] = "pair" /\ w.task[3] = w.cell

\* C5 (amended): every write to a particle's accumulator is made by a task
\* that owns the particle's cell, and two different tasks that write the same
\* accumulator in one step do so in different launches or in the same block,
\* one after the other.
C5_WritersOwnTheCell ==
    /\ \A w \in wlog : OwnerWrite(w)
    /\ \A w1, w2 \in wlog :
          (w1.cell = w2.cell /\ w1.pid = w2.pid /\ w1.buf = w2.buf
              /\ w1.task # w2.task)
            => (w1.launch # w2.launch \/ w1.b = w2.b)

\* Witness: a particle whose accumulator received contributions of its self
\* task and of a pair task in the same step.
C5_Witness ==
    /\ InCall
    /\ \E c \in Cells : \E k \in 1..Len(parts[c]) :
          \E t1, t2 \in Contributors(c, k - 1, "force") :
             t1[1] = "self" /\ t2[1] = "pair"

TaskKeys(type) ==
    { IF type = "pair"
      THEN <<"pair", tasks_cuda[k].i, tasks_cuda[k].j, tasks_cuda[k].flags>>
      ELSE <<type, tasks_cuda[k].i>> :
        k \in {m \in 1..Len(tasks_cuda) : tasks_cuda[m].type = type} }

KernelTaskType(kern) ==
    IF kern = "sort" THEN "sort" ELSE IF kern \in SelfKernels THEN "self" ELSE "pair"

\* C9: a kernel runs only tasks of the task list, none twice, and when it is
\* complete it has run each self task (self kernels) or each pair task (left
\* and right kernels) exactly once; the left pass runs a pair (i, j) for the
\* particles of i and the right pass for the particles of j.
C9_EachTaskOncePerPass ==
    (pc = "dev" /\ kq # <<>> /\ Head(kq) # "integrate") =>
        /\ \A key \in DOMAIN execs :
              key \in TaskKeys(KernelTaskType(Head(kq))) /\ execs[key] = 1
        /\ KernelComplete => DOMAIN execs = TaskKeys(KernelTaskType(Head(kq)))
        /\ \A w \in wlog :
              /\ (w.kern \in LeftKernels) => w.cell = w.task[2]
              /\ (w.kern \in RightKernels) => w.cell = w.task[3]

\* Witness: a right kernel run by more than one block is complete and has run
\* two pair tasks.
C9_Witness ==
    /\ pc = "dev" /\ kq # <<>> /\ Head(kq) = "pair_right"
    /\ KernelComplete
    /\ GridDim > 1
    /\ Cardinality(DOMAIN execs) >= 2

(***************************************************************************)
(* Flux sub-steps within one call                                          *)
(***************************************************************************)

FluxOnlyKernels == {"self_fluxonly", "pair_left_fluxonly", "pair_right_fluxonly"}

\* The kernel expected at position p (0-based, after the sort if any) of a
\* call with N = nr_fluxsteps > 1: N - 1 groups of three flux-only passes and
\* one integration, then the full passes.
ExpectedKernel(p) ==
    IF p < 4 * (cfg.nr_fluxsteps - 1)
    THEN <<"self_fluxonly", "pair_left_fluxonly", "pair_right_fluxonly", "integrate">>[(p % 4) + 1]
    ELSE <<"self", "pair_left", "pair_right">>[p - 4 * (cfg.nr_fluxsteps - 1) + 1]

SubStepOrder ==
    (pc = "dev" /\ cfg.nr_states > 0 /\ cfg.nr_fluxsteps > 1) =>
        LET off  == IF verlet_rebuild THEN 1 ELSE 0
            nsub == 4 * (cfg.nr_fluxsteps - 1)
        IN  /\ Len(kq) + launch = off + nsub + 3
            /\ \A k \in 1..Len(kq) :
                  kq[k] = IF launch + k - 1 < off THEN "sort"
                          ELSE ExpectedKernel(launch + k - 1 - off)
            /\ \A w \in wlog :
                  /\ w.kern \in FluxOnlyKernels => w.buf = "flux"
                  /\ w.buf = "force" => w.launch >= off + nsub
                  /\ w.kern = "integrate" =>
                        (w.launch < off + nsub /\ (w.launch - off) % 4 = 3)

\* C11: with N > 1 sub-steps a call runs N - 1 times the flux-only passes
\* self, pair-left, pair-right followed by one integration, then once the full
\* passes; the flux-only passes write no force accumulator and, like the
\* integration, leave the sort lists as they are.
C11_FluxOnlyPassesBeforeFullPass ==
    /\ []SubStepOrder
    /\ [][(pc = "dev" /\ kq # <<>> /\ Head(kq) \in FluxOnlyKernels \cup {"integrate"})
            => (sortlists' = sortlists /\ sortStamp' = sortStamp)]_vars

\* Witness: with three sub-steps the last kernel of a call is complete and the
\* flux-only passes have evaluated pairs.
C11_Witness ==
    /\ pc = "dev" /\ cfg.nr_fluxsteps = 3 /\ cfg.nr_states > 0
    /\ kq = <<"pair_right">> /\ KernelComplete
    /\ \E w \in wlog : w.kern \in FluxOnlyKernels /\ w.nev > 0
    /\ \E w \in wlog : w.kern = "integrate"

\* The particles that interact with particle k (1-based) of cell c: those of
\* its cell and those of the cells that share a pair task with c, below the
\* cutoff.
PartnersOf(c, k) ==
    { pr \in { <<c2, k2>> \in Cells \X (1..NrParts) : k2 <= Len(parts[c2]) } :
        /\ pr # <<c, k>>
        /\ \/ pr[1] = c
           \/ \E t \in PairTasksOf :
                {tasks_cuda[t].i, tasks_cuda[t].j} = {c, pr[1]}
        /\ PairDist2(c, k - 1, pr[1], pr[2] - 1) < Cutoff * Cutoff }

\* The flux of particle k of cell c with the partners S, for the device
\* concentrations st, in the units of the accumulators.
RECURSIVE DeltaOver(_, _, _, _)
DeltaOver(c, k, S, st) ==
    IF S = {} THEN ZeroVec(cfg.nr_states)
    ELSE LET pr == CHOOSE x \in S : TRUE
             r  == CHOOSE v \in 0..Cutoff : v * v = PairDist2(c, k - 1, pr[1], pr[2] - 1)
             ti == parts[c][k].typ
             tj == parts[pr[1]][pr[2]].typ
             rest == DeltaOver(c, k, S \ {pr}, st)
         IN  IF FxInd(cfg.flux, ti, tj) # 0
             THEN flux_eval_ex_cuda(cfg.flux, r, st[Inds(c) + k],
                                    st[Inds(pr[1]) + pr[2]], ti, tj, rest)
             ELSE rest

\* C12: when the full passes start, the accumulators hold nothing of the
\* intermediate sub-steps; after the call the delta handed to the host is the
\* flux of the final sub-step alone, computed from the concentrations the
\* intermediate sub-steps produced, and these concentrations are handed back.
C12_DeltaIsFinalSubStep ==
    /\ (pc = "dev" /\ kq # <<>> /\ Head(kq) = "self" /\ execs = <<>>
          /\ cfg.nr_states > 0) =>
            \A g \in 1..NrParts : dev_fluxes[g] = ZeroVec(cfg.nr_states)
    /\ (pc = "done" /\ cfg.nr_states > 0) =>
          /\ \A c \in Cells : \A k \in 1..Len(parts[c]) :
                qvec[c][k] = DeltaOver(c, k, PartnersOf(c, k), dev_states)
          /\ cfg.nr_fluxsteps > 1 => fvec = Unflat(dev_states)

\* Witness: a call with sub-steps has ended, the concentrations have changed
\* in the intermediate sub-steps and the delta of the final one is not zero.
C12_Witness ==
    /\ pc = "done" /\ cfg.nr_states > 0 /\ cfg.nr_fluxsteps > 1
    /\ \E c \in Cells : \E k \in 1..Len(parts[c]) :
          /\ qvec[c][k][1] # 0
          /\ fvec[c][k][1] \notin {ConcHi, ConcLo}

(***************************************************************************)
(* Interval index of the evaluator                                         *)
(***************************************************************************)

\* Tables whose index map alpha is not the exact map of the intervals: the
\* quadratic alpha[0] + r * (alpha[1] + r * alpha[2]) of such a table leaves
\* 0..n for some r in [a, b], below or above.
IndexInputs ==
    { [PotTable({}, a, n, -1, 3) EXCEPT !.alpha = <<a0, a1, a2>>] :
        a \in {2, 4}, n \in 1..MaxIntervals,
        a0 \in {-9, -4, 0}, a1 \in {1, 2}, a2 \in {0, 1} }

InitIndex ==
    /\ pot \in IndexInputs
    /\ pin \in [r : 1..MaxR, ri : {1}, rj : {1}]
    /\ pres = NoResult
    /\ s_tasks = <<>>
    /\ gpuid = <<>>
    /\ did = 0
    /\ tasks_cuda = <<>>
    /\ cellpairs = <<>>
    /\ StepIdle
    /\ refresh = NoRefresh /\ SideIdle

SpecIndex == InitIndex /\ [][NextPot]_vars

\* The value of the index map at the distance used for the lookup.
RawIndex == pot.alpha[1] + pres.r * (pot.alpha[2] + pres.r * pot.alpha[3])

\* C16: an interval read from the table is one of its chunks 0..n; an index
\* computed beyond n gives energy 0 and force 0 without a read; a negative
\* value of the index map reads chunk 0.
C16_IndexWithinTable ==
    pres # NoResult =>
        /\ pres.ind # -1 => (0 <= pres.ind /\ pres.ind < Len(pot.c))
        /\ (pres.r <= pot.b /\ RawIndex \div pot.alphaDen > pot.n)
              => (pres.e = 0 /\ pres.fnum = 0 /\ pres.ind = -1)
        /\ (pres.r <= pot.b /\ RawIndex < 0) => pres.ind = 0

\* Witnesses: a distance inside [a, b] whose index lies beyond the table, and
\* one whose index map is negative.
C16_Witness ==
    /\ pres # NoResult
    /\ pres.r <= pot.b
    /\ RawIndex \div pot.alphaDen > pot.n
    /\ pres.ind = -1

C16_WitnessNegative ==
    /\ pres # NoResult
    /\ pres.r <= pot.b
    /\ RawIndex < 0
    /\ pres.ind = 0

(***************************************************************************)
(* Sort lists read by the pair passes                                      *)
(***************************************************************************)

\* The step pipeline on cells of any flag word: s->cells[c].flags is zero or
\* has a flag set.
InitFlags ==
    \E ps \in SchedLayouts, nb \in 1..MaxBlocks, nt \in 1..MaxThreads,
       fl \in [Cells -> {0, 1}] :
        \/ InitStepFlags(ps, NoConc(ps), Config(nb, nt, 0, 1, NoFlags, <<>>, 0), fl)
        \/ InitStepFlags(ps, ConcOf(ps, ConcHi, ConcLo),
                         Config(nb, nt, 1, 2, NoFlags, FluxTerm(0, 0, "FICK", 0), 0), fl)

SpecFlags == InitFlags /\ [][NextStep]_vars

\* The list of cell c holds each local index of the cell once.
ListsParticlesOf(c) ==
    /\ Len(sortlists[c]) = Len(parts[c])
    /\ {IdxOf(sortlists[c][k]) : k \in 1..Len(sortlists[c])} = 0..(Len(parts[c]) - 1)

\* Every list read by a pair task of the current call lists the particles of
\* its cell and was written by the most recent rebuild: by the sort of this
\* call when it rebuilds, and never before the list of another cell.
ReadListsAreCurrent ==
    \A rd \in reads :
        /\ ListsParticlesOf(rd.cell)
        /\ rd.stamp >= 1
        /\ verlet_rebuild => rd.stamp = rd.step
        /\ \A c \in Cells : rd.stamp >= sortStamp[c]

\* C17 (as stated): whenever a pair pass reads the sort list of a cell, the
\* list is a sort of the cell's particles produced by the most recent
\* rebuild, with or without a rebuild in this step and whatever the flag word
\* of the cell.
C17_ReadSortListsAreCurrent == InCall => ReadListsAreCurrent

\* The same for cells whose flag words are all different from zero.
C17_ReadSortListsAreCurrentWhenFlagged ==
    (InCall /\ \A c \in Cells : cuda_cflags[c] # 0) => ReadListsAreCurrent

(***************************************************************************)
(* Potential energy of a step                                              *)
(***************************************************************************)

ForceKernels == {"self", "pair_left", "pair_right"}

\* The unordered particle pairs whose interaction was evaluated in the force
\* passes of the current call, each with its squared distance.
EvaluatedPairs ==
    { [pair |-> {<<t.ci, t.pi>>, <<t.cj, t.pj>>}, r2 |-> t.r2] :
        t \in {u \in tested : u.ev /\ u.kern \in ForceKernels} }

\* Sum of the energies of a set of evaluated pairs.
RECURSIVE SumEnergy(_)
SumEnergy(S) ==
    IF S = {} THEN 0
    ELSE LET x == CHOOSE y \in S : TRUE
             r == CHOOSE d \in 0..Cutoff : d * d = x.r2
         IN  potential_eval_ex_cuda(StepPot, 1, 1, r).e + SumEnergy(S \ {x})

\* The write-back of a call adds to e->s.epot the energies of the evaluated
\* pairs, each pair once (s_epot counts halves).
EnergyIsSumOfPairs ==
    (pc = "dev" /\ pc' = "done") => s_epot' - s_epot = 2 * SumEnergy(EvaluatedPairs)

\* C14 (as stated): after a successful step the potential energy added to the
\* engine total is exactly the sum of the energies of the interactions
\* evaluated in that step, each unordered pair counted once.
C14_EnergyIsSumOfEvaluatedPairs == [][EnergyIsSumOfPairs]_vars

\* The same when the uninitialised register of the self kernel holds zero.
C14_EnergyWhenRegisterZero == [][junk = 0 => EnergyIsSumOfPairs]_vars

(***************************************************************************)
(* Allocation failure of the return buffers                                *)
(***************************************************************************)

\* The host data of the particles: p->f, state_vector->q, state_vector->fvec.
HostData == [f |-> pforce, q |-> qvec, c |-> fvec]

\* The write-back of the forces done before the buffers are tested.
AfterAllocFailure_partial(h) ==
    [h EXCEPT !.f = [c \in Cells |-> [k \in 1..Len(parts[c]) |->
                        h.f[c][k] + dev_forces[Inds(c) + k]]]]

\* malloc of a return buffer yields NULL (lines 3167-3177): return
\* error(MDCERR_malloc) is reached before the copies from the device are
\* requested and before the loop that adds them to the particles.
AfterAllocFailure(h) == h

\* The call fails at the allocation of the return buffers, which the host
\* reaches while the kernels are in flight.
AllocFail ==
    /\ pc = "dev"
    /\ pc' = "failed"
    /\ pforce' = AfterAllocFailure(HostData).f
    /\ qvec' = AfterAllocFailure(HostData).q
    /\ fvec' = AfterAllocFailure(HostData).c
    /\ UNCHANGED <<cfg, parts, disp, verlet_rebuild, step>>
    /\ UNCHANGED <<junk, cuda_epot, s_epot, dev_forces>>
    /\ UNCHANGED <<devVars, logVars, potVars, loadVars>>
    /\ UNCHANGED <<refresh, sideVars>>

NextAlloc ==
    \/ NextStep
    \/ AllocFail

SpecAlloc == InitSched /\ [][NextAlloc]_vars

\* C15: a call that fails at the allocation of a buffer returns the failure
\* and leaves the force, the flux delta and the concentrations of every
\* particle on the host as they were when the call started: the host data
\* change in no transition of a call other than its successful write-back.
C15_FailedStepLeavesHostUntouched ==
    [][(pc = "dev" /\ pc' # "done") =>
          (pforce' = pforce /\ qvec' = qvec /\ fvec' = fvec /\ s_epot' = s_epot)]_vars

\* A call failed after its kernels had accumulated forces and fluxes on the
\* device.
C15_Witness ==
    /\ pc = "failed"
    /\ kq = <<>>
    /\ \E g \in DOMAIN dev_forces : dev_forces[g] # 0
    /\ cfg.nr_states > 0
    /\ \E g \in DOMAIN dev_fluxes : dev_fluxes[g][1] # 0

(***************************************************************************)
(* Refresh of the device image by a host thread                            *)
(***************************************************************************)

\* engine_cuda_refresh_pots, engine_cuda_boundary_conditions_refresh and
\* engine_cuda_refresh: unload, load, then cudaDeviceSynchronize on every
\* device.
RefreshKinds == {"pots", "bcs", "all"}

\* First call of a refresh (lines 3703, 709, 4191): the tables are freed.  The
\* functions test nothing before it and take no lock.
RefreshUnload ==
    /\ refresh.phase = "idle"
    /\ \E kind \in RefreshKinds : refresh' = [kind |-> kind, phase |-> "freed"]
    /\ UNCHANGED <<potVars, loadVars, stepVars, sideVars>>

\* Second call (lines 3706, 712, 4194): the tables are built and uploaded.
RefreshLoad ==
    /\ refresh.phase = "freed"
    /\ refresh' = [refresh EXCEPT !.phase = "loaded"]
    /\ UNCHANGED <<potVars, loadVars, stepVars, sideVars>>

\* cudaDeviceSynchronize (lines 3713, 719, 4201) returns when the device has
\* no kernel left to run.
RefreshSync ==
    /\ refresh.phase = "loaded"
    /\ pc # "dev" \/ kq = <<>>
    /\ refresh' = NoRefresh
    /\ UNCHANGED <<potVars, loadVars, stepVars, sideVars>>

NextRefresh ==
    \/ NextStep
    \/ RefreshUnload
    \/ RefreshLoad
    \/ RefreshSync

SpecRefresh == InitSched /\ [][NextRefresh]_vars

\* C13 (as stated): no refresh is in progress while kernels of a step are in
\* flight, so that no kernel runs while the tables it reads are freed or
\* rewritten.
C13_NoRefreshDuringStep ==
    ~(pc = "dev" /\ kq # <<>> /\ refresh.phase # "idle")

(***************************************************************************)
(* Flux sub-steps of a two-particle system                                 *)
(***************************************************************************)

\* Two particles, in neighbouring cells or in one cell, of type 0 and of type
\* t1.
FluxLayouts(t1) ==
    { TwoCells(<<Hi(a, 0)>>, <<Lo(b, t1)>>) :
        a \in (Window - 1)..Window, b \in (Window - 2)..(Window - 1) }
      \cup { TwoCells(<<Hi(1, 0), Hi(3, t1)>>, <<>>) }

\* Flag words of the two types: none set, or the species of type 1 constant.
ConstantType1 == [t \in {0, 1} |-> IF t = 1 THEN SPECIES_CONSTANT ELSE 0]

InitFlux ==
    \E nf \in 1..MaxFluxSteps :
        \/ \E ps \in FluxLayouts(0), dc \in {0, 1} :
             InitStepWith(ps, ConcOf(ps, ConcHi, ConcLo),
                          Config(1, 1, 1, nf, NoFlags, FluxTerm(0, 0, "FICK", dc), MaxDx))
        \/ \E ps \in FluxLayouts(1), sf \in {NoFlags, ConstantType1} :
             InitStepWith(ps, ConcOf(ps, ConcHi, ConcLo),
                          Config(1, 1, 1, nf, sf, FluxTerm(0, 1, "FICK", 0), MaxDx))

SpecFlux == InitFlux /\ [][NextStep]_vars

RECURSIVE SumStates(_, _)
SumStates(a, g) == IF g > Len(a) THEN 0 ELSE a[g][1] + SumStates(a, g + 1)

\* Two particles within the cutoff, a single Fick term with zero decay between
\* their types, and no species flag set.
TwoParticleFick ==
    /\ NrParts = 2
    /\ Len(cfg.flux) = 1
    /\ cfg.flux[1].kind = "FICK"
    /\ cfg.flux[1].decay = 0
    /\ \A t \in DOMAIN cfg.species_flags : cfg.species_flags[t] = 0
    /\ \E c1, c2 \in Cells : \E k1 \in 1..Len(parts[c1]) : \E k2 \in 1..Len(parts[c2]) :
          /\ <<c1, k1>> # <<c2, k2>>
          /\ PairDist2(c1, k1 - 1, c2, k2 - 1) < Cutoff * Cutoff

SumConserved ==
    (pc = "dev" /\ TwoParticleFick) =>
        SumStates(dev_states, 1) = SumStates(Flat(fvec, 0), 1)

\* C6 (as stated): for two particles within the cutoff with only a Fick term
\* and zero decay, the sum of the two concentrations on the device is, after
\* every flux sub-step, the sum before the step.
C6_FickConservesSum == SumConserved

\* The same on the steps that rebuild the sort lists only.
C6_FickConservesSumOnRebuild == verlet_rebuild => SumConserved

\* C10 (as stated): during a call the device concentration of a species whose
\* constant flag is set stays the concentration before the call.
C10_ConstantSpeciesHeld ==
    pc = "dev" =>
        \A c \in Cells : \A k \in 1..Len(parts[c]) :
            BitAnd(cfg.species_flags[parts[c][k].typ], SPECIES_CONSTANT) # 0 =>
                dev_states[Inds(c) + k] = fvec[c][k]

(***************************************************************************)
(* Sign of the concentrations through a sub-step                           *)
(***************************************************************************)

\* Decay coefficient of a fast-decaying species: dt_flux * 0.5 * FastDecay > 1.
FastDecay == 9

\* Two particles within the cutoff of each other with a Fick flux between
\* them whose species decays fast, and sub-steps.
InitDecay ==
    \E ps \in FluxLayouts(0), nf \in 2..MaxFluxSteps, dc \in {1, FastDecay} :
        InitStepWith(ps, ConcOf(ps, ConcHi, ConcLo),
                     Config(1, 1, 1, nf, NoFlags, FluxTerm(0, 0, "FICK", dc), MaxDx))

SpecDecay == InitDecay /\ [][NextStep]_vars

\* A transition of the integration kernel.
IntegrateStep ==
    /\ pc = "dev" /\ kq # <<>> /\ Head(kq) = "integrate"
    /\ dev_states' # dev_states

\* C18 (as stated): the integration of a sub-step leaves every concentration
\* that was non-negative before it non-negative.
C18_SubStepKeepsConcentrationsNonNegative ==
    [][IntegrateStep =>
          \A g \in DOMAIN dev_states :
              dev_states[g][1] >= 0 => dev_states'[g][1] >= 0]_vars

(***************************************************************************)
(* Exchange of a flux term between the two particles of a pair             *)
(***************************************************************************)

\* Two particles at distance 2, in one cell or in two neighbouring cells; the
\* second particle has type t1.
ExchangeLayouts(t1) ==
    { TwoCells(<<Hi(1, 0)>>, <<Lo(1, t1)>>),
      TwoCells(<<Hi(1, 0), Hi(3, t1)>>, <<>>) }

\* One flux term of any kind between the types of the two particles, with or
\* without decay; the particles do not move.
InitExchange ==
    \E t1 \in {0, 1}, kind \in {"FICK", "SECRETE", "UPTAKE"}, dc \in {0, 1},
       nf \in 1..MaxFluxSteps :
        \E ps \in ExchangeLayouts(t1) :
            InitStepWith(ps, ConcOf(ps, ConcHi, ConcLo),
                         Config(1, 1, 1, nf, NoFlags, FluxTerm(0, t1, kind, dc), 0))

SpecExchange == InitExchange /\ [][NextStep]_vars

\* The flux passes of a sub-step are complete and their accumulators are not
\* yet integrated or copied back.
PassComplete ==
    /\ pc = "dev"
    /\ launch > 0
    /\ \/ kq = <<>>
       \/ Head(kq) = "integrate" /\ \A b \in Blocks : blk[b] = FirstCell(b)

\* Each of the two particles evaluated the flux with the other.
BothSidesEvaluated ==
    /\ NrParts = 2
    /\ \A g \in 1..2 : \E t \in tested : t.ev /\ Inds(t.ci) + t.pi + 1 = g

\* The accumulator of particle g without its own decay correction
\* (- 0.5 * decay_coef * states_i[qind], line 1686), in units of
\* 1/(2 cutoff^2).
TermOf(g) == dev_fluxes[g][1] + cfg.flux[1].decay * cuda_cutoff2 * dev_states[g][1]

ExchangeIsAntisymmetric ==
    (PassComplete /\ BothSidesEvaluated) => TermOf(1) + TermOf(2) = 0

\* C19 (as stated): a flux term evaluated for a pair is added to the
\* accumulator of one particle and the same amount is subtracted from the
\* accumulator of the other, each side with its own decay correction, for
\* particles of the same type or of different types.
C19_FluxTermIsExchanged == ExchangeIsAntisymmetric

\* The same for a Fick term, or for two particles of different types.
C19_FluxTermIsExchangedFickOrTwoTypes ==
    (cfg # <<>> /\ cfg.nr_states > 0
       /\ (cfg.flux[1].kind = "FICK" \/ cfg.flux[1].a # cfg.flux[1].b))
      => ExchangeIsAntisymmetric

(***************************************************************************)
(* Reset face                                                              *)
(***************************************************************************)

\* The declared initial concentrations of a type: the carrier type 0 enters
\* with ConcHi, the sink type 1 with 0.
initial_concentration(typ) == <<IF typ = 0 THEN ConcHi ELSE 0>>

\* A state vector that keeps its values through the crossing.
StateReset_keep(fv, typ) == fv

\* The state vector of a particle of type typ after it has crossed a reset
\* face with the values fv.
StateReset(fv, typ) == initial_concentration(typ)

\* The last cell of the row, whose upper x face is periodic and resetting,
\* and the cell on the other side of that face.
LastCell == NrCells - 1

\* A per-cell host array after particle k of the last cell has moved to the
\* end of cell 0 with the value v.
MoveAcross(h, k, v) ==
    [c \in Cells |->
        IF c = LastCell
        THEN [m \in 1..(Len(h[c]) - 1) |-> IF m < k THEN h[c][m] ELSE h[c][m + 1]]
        ELSE IF c = 0 THEN Append(h[c], v) ELSE h[c]]

\* The end of an engine step in which particle k of the last cell, one unit
\* below the upper x face, moves across it: the host integrates the
\* concentrations, the particle enters cell 0 at x = 0 as under a periodic
\* face, its state vector is reset, and the sort lists are rebuilt.
CrossReset(k) ==
    LET integ == [c \in Cells |-> [m \in 1..Len(parts[c]) |->
                    [n \in 1..cfg.nr_states |->
                        HostIntegrateOne(fvec[c][m][n], qvec[c][m][n],
                                         cfg.species_flags[parts[c][m].typ])]]]
        p     == parts[LastCell][k]
    IN  /\ pc = "done"
        /\ step < MaxSteps
        /\ k \in 1..Len(parts[LastCell])
        /\ p.x - disp[LastCell][k] = cuda_h[1] - 1
        /\ cfg.nr_states > 0
        /\ pc' = "ready"
        /\ parts' = MoveAcross([c \in Cells |-> [m \in 1..Len(parts[c]) |->
                                  [parts[c][m] EXCEPT !.x = @ - disp[c][m]]]],
                               k, [x |-> 0, typ |-> p.typ])
        /\ fvec' = MoveAcross(integ, k, StateReset(integ[LastCell][k], p.typ))
        /\ qvec' = MoveAcross([c \in Cells |-> [m \in 1..Len(parts[c]) |->
                                 ZeroVec(cfg.nr_states)]], k, ZeroVec(cfg.nr_states))
        /\ disp' = MoveAcross([c \in Cells |-> [m \in 1..Len(parts[c]) |-> 0]], k, 0)
        /\ pforce' = MoveAcross([c \in Cells |-> [m \in 1..Len(parts[c]) |-> 0]], k, 0)
        /\ s_epot' = 0
        /\ verlet_rebuild' = TRUE
        /\ UNCHANGED <<cfg, step>>
        /\ UNCHANGED <<junk, cuda_epot, dev_forces>>
        /\ UNCHANGED <<devVars, logVars, potVars, loadVars>>
        /\ UNCHANGED <<refresh, sideVars>>

\* A carrier below the reset face in the last cell and a sink in cell 0.
ResetLayouts ==
    { [c \in Cells |-> IF c = LastCell THEN <<Hi(1, 0)>>
                       ELSE IF c = 0 THEN <<Lo(2, 1)>> ELSE <<>>],
      [c \in Cells |-> IF c = LastCell THEN <<Hi(3, 0), Hi(1, 0)>>
                       ELSE IF c = 0 THEN <<Lo(1, 1)>> ELSE <<>>] }

\* The carriers have decayed to any of three concentrations.
InitReset ==
    \E ps \in ResetLayouts, v \in {0, ConcLo, ConcHi}, nf \in 1..MaxFluxSteps, dc \in {0, 1} :
        InitStepWith(ps, [c \in Cells |-> [k \in 1..Len(ps[c]) |-> <<v>>]],
                     Config(1, 1, 1, nf, NoFlags, FluxTerm(0, 1, "FICK", dc), 0))

NextReset ==
    \/ NextStep
    \/ \E k \in 1..2 : CrossReset(k)

SpecReset == InitReset /\ [][NextReset]_vars

\* A transition in which a particle crosses the reset face.
Crossing == Len(parts'[0]) = Len(parts[0]) + 1

\* C20: the particle that has crossed the reset face carries exactly the
\* declared initial concentrations of its type, whatever it carried before.
C20_ResetRestoresInitialConcentration ==
    [][Crossing =>
          LET n == Len(parts'[0])
          IN  fvec'[0][n] = initial_concentration(parts'[0][n].typ)]_vars

\* A carrier that had another concentration than its initial one has crossed
\* and is in cell 0 with the initial concentration.
C20_Witness ==
    /\ Len(parts[LastCell]) = 0
    /\ Len(parts[0]) = 2
    /\ pc = "dev"
    /\ step = 2
    /\ fvec[0][2] = <<ConcHi>>
    /\ fvec[0][1] # <<ConcHi>>

(***************************************************************************)
(* Forces of a step under every schedule of the blocks                     *)
(***************************************************************************)

\* Position of particle k (from 1) of cell c along x in the box.
GlobalX(c, k) == c * cuda_h[1] + parts[c][k].x

\* The particles whose pair with particle k of cell c is evaluated in a
\* step: those of its own cell (self task) and of the cells it shares a pair
\* task with, below the cutoff.
ForcePartners(c, k) ==
    { q \in { <<c2, k2>> \in Cells \X (1..NrParts) :
                /\ k2 <= Len(parts[c2])
                /\ <<c2, k2>> # <<c, k>>
                /\ c2 - c \in {-1, 0, 1} } :
        WithinCutoff((GlobalX(c, k) - GlobalX(q[1], q[2])) * (GlobalX(c, k) - GlobalX(q[1], q[2]))) }

\* The force on particle k of cell c as a function of the positions alone:
\* the sum over its partners of what potential_eval_super_ex_cuda subtracts
\* from its accumulator.
RECURSIVE ForceFrom(_, _, _)
ForceFrom(c, k, S) ==
    IF S = {} THEN 0
    ELSE LET q  == CHOOSE z \in S : TRUE
             dx == GlobalX(c, k) - GlobalX(q[1], q[2])
         IN  ForceFrom(c, k, S \ {q})
               - PairEval([dx |-> dx, r |-> Abs(dx), r2 |-> dx * dx]).fx

\* Two additions to the force of one particle within a launch are made by
\* one block, and within a task by one thread: forces[4*i + k] += pif[k] is
\* never run by two threads between two barriers.
ForceWritesInProgramOrder ==
    \A w1, w2 \in wlog :
        (w1.buf = "force" /\ w2.buf = "force" /\ w1.launch = w2.launch
            /\ w1.cell = w2.cell /\ w1.pid = w2.pid)
          => (w1.b = w2.b /\ (w1.task = w2.task => w1.t = w2.t))

\* C21: whatever the order in which the blocks of the kernels of a step were
\* scheduled, and for every number of blocks and of threads, the force
\* buffer at the end of the step is the same function of the particle
\* positions; no two threads add to the force of one particle concurrently.
C21_ForcesIndependentOfSchedule ==
    /\ ForceWritesInProgramOrder
    /\ (pc = "dev" /\ kq = <<>>) =>
          \A c \in Cells : \A k \in 1..Len(parts[c]) :
              dev_forces[Inds(c) + k] = ForceFrom(c, k, ForcePartners(c, k))

\* Witness: the kernels of a step run by two blocks of two threads are
\* complete; a particle has a force made of contributions of its self task
\* and of a pair task, and blocks and threads have both written in a launch.
C21_Witness ==
    /\ pc = "dev" /\ kq = <<>>
    /\ GridDim > 1 /\ cfg.nr_threads > 1
    /\ \E c \in Cells : \E k \in 1..Len(parts[c]) :
          /\ dev_forces[Inds(c) + k] # 0
          /\ \E t1, t2 \in Contributors(c, k - 1, "force") :
                t1[1] = "self" /\ t2[1] = "pair"
    /\ \E w1, w2 \in wlog : w1.launch = w2.launch /\ w1.buf = "force" /\ w2.buf = "force"
                             /\ w1.b = w2.b /\ w1.t # w2.t

(***************************************************************************)
(* Wall interactions of the cells on a face of the box                     *)
(***************************************************************************)

\* Particles of two types next to the lower face of the box, in the middle
\* cell and next to the upper face.
WallLayout ==
    [c \in Cells |-> IF c = 0 THEN <<Lo(1, 0), Lo(2, 1)>>
                     ELSE IF c = NrCells - 1 THEN <<Hi(1, 0), Hi(3, 1)>>
                     ELSE <<Lo(2, 0)>>]

\* The flag words of the cells: the first cell of the row may carry the flag
\* of the lower face and the last cell that of the upper face, each with or
\* without another flag bit; the cells in between carry neither.
WallFlags ==
    { fl \in [Cells -> {1, cell_active_left, cell_active_left + 1,
                        cell_active_right, cell_active_right + 1}] :
        \A c \in Cells :
            /\ BitAnd(fl[c], cell_active_left) # 0 => c = 0
            /\ BitAnd(fl[c], cell_active_right) # 0 => c = NrCells - 1 }

\* nr_pots of each face for each type: type 1 has a potential on both faces
\* or on none.
WallPots == { bp \in [{0, 1} -> [{0, 1} -> {0, 1}]] : bp[0][1] = bp[1][1] }

\* Two blocks of two threads, without species or with a Fick flux and two
\* sub-steps.
InitWall ==
    \E fl \in WallFlags, bp \in WallPots :
        \/ InitStepFlags(WallLayout, NoConc(WallLayout),
                         [Config(2, 2, 0, 1, NoFlags, <<>>, 0) EXCEPT !.bc_pots = bp], fl)
        \/ InitStepFlags(WallLayout, ConcOf(WallLayout, ConcHi, ConcLo),
                         [Config(2, 2, 1, 2, NoFlags, FluxTerm(0, 0, "FICK", 0), 0)
                            EXCEPT !.bc_pots = bp], fl)

SpecWall == InitWall /\ [][NextStep]_vars

\* Perpendicular distance of particle k of cell c to a face of the box.
FaceDistance(c, k, face) ==
    IF face = 0 THEN GlobalX(c, k) ELSE cuda_dim[1] - GlobalX(c, k)

\* The cell of the particle carries the flag of the face and the face has a
\* potential for the type of the particle.
WallApplies(c, k, face) ==
    /\ BitAnd(cuda_cflags[c], FaceFlag(face)) # 0
    /\ cfg.bc_pots[face][parts[c][k].typ] > 0

\* The force of the walls on particle k of cell c: away from each face that
\* applies, by the potential at the distance to that face.
WallForce(c, k) ==
    (IF WallApplies(c, k, 0)
     THEN 0 - PairEval([dx |-> FaceDistance(c, k, 0), r |-> FaceDistance(c, k, 0)]).fx
     ELSE 0)
      + (IF WallApplies(c, k, 1)
         THEN 0 - PairEval([dx |-> 0 - FaceDistance(c, k, 1), r |-> FaceDistance(c, k, 1)]).fx
         ELSE 0)

\* C22: a wall interaction is evaluated for a particle and a face only if
\* the particle's cell carries the flag of that face and the face has a
\* potential for its type, at the perpendicular distance of the particle to
\* that face; when the kernels of a step are complete every such particle
\* and face has been evaluated, and the force of each particle is that of
\* its partners plus that of these walls.
C22_WallInteractionIffFlagged ==
    InCall =>
    /\ \A w \in walls :
          /\ WallApplies(w.cell, w.pid + 1, w.face)
          /\ w.r = FaceDistance(w.cell, w.pid + 1, w.face)
    /\ (pc = "dev" /\ kq = <<>>) =>
          \A c \in Cells : \A k \in 1..Len(parts[c]) :
              /\ \A face \in {0, 1} :
                    WallApplies(c, k, face) =>
                        \E w \in walls : w.cell = c /\ w.pid = k - 1 /\ w.face = face
              /\ dev_forces[Inds(c) + k]
                    = ForceFrom(c, k, ForcePartners(c, k)) + WallForce(c, k)

\* Witness: the kernels of a step are complete; a particle of the last cell
\* has a wall interaction with the upper face that changed its force, a
\* particle of another type in the same cell has none, and the first cell
\* carries no flag of a face.
C22_Witness ==
    /\ pc = "dev" /\ kq = <<>>
    /\ BitAnd(cuda_cflags[0], cell_active_left) = 0
    /\ \E w \in walls :
          /\ w.face = 1 /\ w.cell = NrCells - 1
          /\ WallForce(w.cell, w.pid + 1) # 0
          /\ \E k \in 1..Len(parts[w.cell]) :
                ~(\E v \in walls : v.cell = w.cell /\ v.pid = k - 1)

(***************************************************************************)
(* The sort of one cell for one direction                                   *)
(***************************************************************************)

\* Largest number of particles of a sorted cell.
MaxCount == 5

\* Positions of the particles of the sorted cell.
SortPositions == {0, 1, CellEdge \div 2, CellEdge - 1}

RECURSIVE SeqsUpTo(_, _)
SeqsUpTo(S, n) ==
    IF n = 0 THEN {<<>>}
    ELSE SeqsUpTo(S, n - 1) \cup [1..n -> S]

\* A cell of 0..MaxCount particles; the sort has not run.
InitSort ==
    /\ pin \in [xs : SeqsUpTo(SortPositions, MaxCount)]
    /\ pres = NoResult
    /\ pot = NoPot
    /\ s_tasks = <<>> /\ gpuid = <<>> /\ did = 0 /\ tasks_cuda = <<>> /\ cellpairs = <<>>
    /\ StepIdle
    /\ refresh = NoRefresh /\ SideIdle

\* runner_dosort_cuda for the cell (lines 2475-2476).
SortCall ==
    /\ pres = NoResult
    /\ pres' = [list |-> runner_dosort_cuda(pin.xs)]
    /\ UNCHANGED <<pot, pin, loadVars, stepVars>>
    /\ UNCHANGED <<refresh, sideVars>>

NextSort == SortCall

SpecSort == InitSort /\ [][NextSort]_vars

\* The compare-exchanges of one step between two barriers on count entries:
\* the first step of stage k (second = FALSE) or the second step of stride
\* k; each is the pair of positions <<ind, jnd>> with jnd < count.
Comparators(count, k, second) ==
    { p \in { IF second
              THEN <<i + (i - (i % k)), i + (i - (i % k)) + k>>
              ELSE <<i + (i - (i % k)), 2 * ((i - (i % k)) + k) - (i % k) - 1>> :
                i \in 0..(count - 1) } : p[2] < count }

\* No two compare-exchanges of a step touch the same entry, so the threads
\* of the block, however many, do not interfere between two barriers.
StepIsParallel(count, k, second) ==
    \A p, q \in Comparators(count, k, second) :
        p # q => {p[1], p[2]} \cap {q[1], q[2]} = {}

\* C23: after the sort of a cell for a direction the list is a permutation
\* of the packed entries (index << 16 | key) of the particles of the cell
\* and its keys are in non-increasing order, for 0, 1 and any other number
\* of particles; the compare-exchanges of each step are disjoint, so the
\* result does not depend on the number of threads.
C23_SortedPermutation ==
    pres # NoResult =>
        LET n == Len(pin.xs)
            l == pres.list
        IN  /\ Len(l) = n
            /\ \A k \in 1..n : \E m \in 1..n : l[m] = Pack(k - 1, SortKey(pin.xs[k]))
            /\ \A m \in 1..(n - 1) : KeyOf(l[m]) >= KeyOf(l[m + 1])
            /\ \A k \in {1, 2, 4, 8} : \A second \in BOOLEAN :
                  StepIsParallel(n, k, second)

\* Witness: a cell whose number of particles is not a power of two, with two
\* particles of equal key and the particles not in sorted order, is sorted.
C23_Witness ==
    /\ pres # NoResult
    /\ Len(pin.xs) = 5
    /\ pin.xs[1] < pin.xs[5] /\ pin.xs[2] = pin.xs[4] /\ pin.xs[3] > pin.xs[5]
    /\ IdxOf(pres.list[1]) = 2

\* Witness: cells of no and of one particle.
C23_WitnessSmall ==
    /\ pres # NoResult
    /\ Len(pin.xs) <= 1

(***************************************************************************)
(* Sort keys of the 13 directions                                          *)
(***************************************************************************)

\* cuda_shift (lines 203-217): the direction of each sid.
cuda_shift ==
    << <<1, 1, 1>>, <<1, 1, 0>>, <<1, 1, -1>>, <<1, 0, 1>>, <<1, 0, 0>>,
       <<1, 0, -1>>, <<1, -1, 1>>, <<1, -1, 0>>, <<1, -1, -1>>, <<0, 1, 1>>,
       <<0, 1, 0>>, <<0, 1, -1>>, <<0, 0, 1>> >>

\* cuda_shiftn (lines 188-202) in thousandths: the unit vector of each
\* direction, 1.0, 0.7071... or 0.5773... per non-zero component.
cuda_shiftn(sid) ==
    LET sh == cuda_shift[sid + 1]
        m  == Abs(sh[1]) + Abs(sh[2]) + Abs(sh[3])
        u  == IF m = 1 THEN 1000 ELSE IF m = 2 THEN 707 ELSE 577
    IN  [k \in 1..3 |-> sh[k] * u]

\* floor(sqrt(n)) by bisection of lo..hi.
RECURSIVE ISqrt(_, _, _)
ISqrt(n, lo, hi) ==
    IF lo >= hi THEN lo
    ELSE LET mid == (lo + hi + 1) \div 2
         IN  IF mid * mid <= n THEN ISqrt(n, mid, hi) ELSE ISqrt(n, lo, mid - 1)

\* nshift = sqrtf(shift . shift), shift[k] = cuda_shift[3*sid + k] * cuda_h[k]
\* (lines 1765-1770).
NShift(sid) ==
    LET sh == cuda_shift[sid + 1]
        n  == (sh[1] * cuda_h[1]) * (sh[1] * cuda_h[1])
               + (sh[2] * cuda_h[2]) * (sh[2] * cuda_h[2])
               + (sh[3] * cuda_h[3]) * (sh[3] * cuda_h[3])
    IN  ISqrt(n, 0, HNorm)

\* nshift + pix . shiftn for a particle at px = <<x, y, z>>, in thousandths
\* (line 1778).
Projection(px, sid) ==
    1000 * NShift(sid) + px[1] * cuda_shiftn(sid)[1] + px[2] * cuda_shiftn(sid)[2]
                       + px[3] * cuda_shiftn(sid)[3]

\* (unsigned int)(cuda_dscale * (nshift + pix . shiftn)): the conversion
\* truncates a value that is not negative.  The product is formed from the
\* whole and the fractional part of the projection.
DirectionKey(px, sid) ==
    LET v == Projection(px, sid)
    IN  (DScaleNum * (v \div 1000) + (DScaleNum * (v % 1000)) \div 1000) \div DScaleDen

\* a | b for a, b >= 0.
BitOr(a, b) == a + b - BitAnd(a, b)

\* sort_i[k] = (k << 16) | key (line 1778), for local indices below 2^15.
PackBits(k, key) == BitOr(k * 65536, key)

\* Positions inside a cell along each axis: on the lower face, next to it, in
\* the middle, and next to the upper face.
InsideCell ==
    { <<x, y, z>> : x \in {0, 1, cuda_h[1] \div 2, cuda_h[1] - 1},
                    y \in {0, cuda_h[2] \div 2, cuda_h[2] - 1},
                    z \in {0, cuda_h[3] \div 2, cuda_h[3] - 1} }

\* A particle of local index k inside its cell and a direction.
InitKey ==
    /\ pin \in [px : InsideCell, sid : 0..12, k : {0, 1, 1000}]
    /\ pres = NoResult
    /\ pot = NoPot
    /\ s_tasks = <<>> /\ gpuid = <<>> /\ did = 0 /\ tasks_cuda = <<>> /\ cellpairs = <<>>
    /\ StepIdle
    /\ refresh = NoRefresh /\ SideIdle

\* The packing of one particle by runner_dosort_cuda (lines 1775-1779).
KeyCall ==
    /\ pres = NoResult
    /\ pres' = [proj  |-> Projection(pin.px, pin.sid),
                key   |-> DirectionKey(pin.px, pin.sid),
                entry |-> PackBits(pin.k, DirectionKey(pin.px, pin.sid))]
    /\ UNCHANGED <<pot, pin, loadVars, stepVars>>
    /\ UNCHANGED <<refresh, sideVars>>

NextKey == KeyCall

SpecKey == InitKey /\ [][NextKey]_vars

\* C24: for a particle inside its cell and each of the 13 directions the
\* projection is not negative and its quantized key lies in 0..65535, so
\* the packed entry (index << 16 | key) gives back the key in its low 16
\* bits and the local index by >> 16.
C24_KeyFitsSixteenBits ==
    pres # NoResult =>
        /\ pres.proj >= 0
        /\ 0 <= pres.key /\ pres.key <= 65535
        /\ KeyOf(pres.entry) = pres.key
        /\ IdxOf(pres.entry) = pin.k
        /\ pin.sid = SidX => pres.key = SortKey(pin.px[1])

\* Witness: the particle in the corner of the cell that is furthest along
\* the diagonal direction, with a local index that is not zero: the largest
\* key of the cell.
C24_Witness ==
    /\ pres # NoResult
    /\ pin.sid = 0
    /\ pin.px = <<cuda_h[1] - 1, cuda_h[2] - 1, cuda_h[3] - 1>>
    /\ pin.k = 1000
    /\ pres.key > SHRT_MAX \div 2

\* Witness: a direction with negative components and the particle furthest
\* against it.
C24_WitnessLow ==
    /\ pres # NoResult
    /\ pin.sid = 8
    /\ pin.px = <<0, cuda_h[2] - 1, cuda_h[3] - 1>>
    /\ pres.key < SHRT_MAX \div 8

(***************************************************************************)
(* Stopping bound of the walks over the sorted lists                       *)
(***************************************************************************)

\* maxdist = s->cutoff + 2 * s->maxdx (line 2952): the cutoff plus the skin.
MaxDist == Cutoff + 2 * cfg.maxdx

\* The key of particle pid of cell c in the sort list of the cell.
ListKey(c, pid) ==
    KeyOf(sortlists[c][CHOOSE m \in 1..Len(sortlists[c]) : IdxOf(sortlists[c][m]) = pid])

\* Quantized separation of particle p of cell i and particle q of cell j
\* along the direction of the pair (i, j), by the keys of the lists.
QSeparation(i, p, j, q) == ListKey(j, q) + PairDShift(i, j) - ListKey(i, p)

\* The pairs of a pair task a complete pass has walked to are those whose
\* quantized separation is at most bound (the pass of the left cell) or at
\* most bound + slack (the pass of the right cell).
WalkedUpTo(bound, slack) ==
    (pc = "dev" /\ kq # <<>> /\ Head(kq) \in PairKernels /\ KernelComplete) =>
        \A k \in PairTasksOf :
            LET i == tasks_cuda[k].i
                j == tasks_cuda[k].j
            IN  \A p \in 0..(Len(parts[i]) - 1) : \A q \in 0..(Len(parts[j]) - 1) :
                    IF Head(kq) \in LeftKernels
                    THEN Reached(Head(kq), i, p, j, q)
                            <=> QSeparation(i, p, j, q) <= bound
                    ELSE Reached(Head(kq), j, q, i, p)
                            <=> QSeparation(i, p, j, q) <= bound + slack

\* C25 (as stated): the walk of a particle over the neighbour cell's sorted
\* list goes on exactly as long as the quantized separation is at most the
\* quantized cutoff plus skin.
C25_WalkStopsAtCutoffPlusSkin == WalkedUpTo(Quantize(MaxDist), 0)

\* The bound the walks stop at: the left walk goes on while the separation
\* is below 2 + the quantized cutoff, the right walk while it is at most
\* that.
C25_WalkStopsAtCutoffPlusTwo == WalkedUpTo(cuda_dmaxdist - 1, 1)

(***************************************************************************)
(* The evaluator at zero separation                                        *)
(***************************************************************************)

\* ir = rsqrtf(r2); r = r2 * ir (lines 908-909) in IEEE arithmetic:
\* rsqrtf(0) = +inf and 0 * inf = NaN; otherwise r is the square root.
\* sqrt(r2) is exact here: the separations handed in are whole.
RadiusOf(r2) ==
    IF r2 = 0 THEN [nan |-> TRUE, ir_inf |-> TRUE, val |-> 0]
    ELSE [nan |-> FALSE, ir_inf |-> FALSE, val |-> ISqrt(r2, 0, r2)]

\* potential_eval_ex_cuda from r2 on (lines 901-957), with the outcome of
\* each comparison and conversion on a NaN: a NaN passes through the scaling
\* and the shift, r < p.w.x and r > p.w.y are false for it (lines 919, 921),
\* fmaxf(0.0f, NaN) is 0 so that interval 0 is read (line 928), and
\* x, ee, eff and eff * c[1] * ir are NaN (lines 940-953).  nan tells that
\* *e and *f are NaN.
potential_eval_r2(p, ri, rj, r2) ==
    LET rr == RadiusOf(r2)
    IN  IF rr.nan
        THEN [e |-> 0, fnum |-> 0, fden |-> 1, ind |-> 0, r |-> 0, reff |-> 0,
              nan |-> TRUE]
        ELSE [e    |-> potential_eval_ex_cuda(p, ri, rj, rr.val).e,
              fnum |-> potential_eval_ex_cuda(p, ri, rj, rr.val).fnum,
              fden |-> potential_eval_ex_cuda(p, ri, rj, rr.val).fden,
              ind  |-> potential_eval_ex_cuda(p, ri, rj, rr.val).ind,
              r    |-> potential_eval_ex_cuda(p, ri, rj, rr.val).r,
              reff |-> potential_eval_ex_cuda(p, ri, rj, rr.val).reff,
              nan  |-> FALSE]

\* Largest separation of the two particles.
MaxSep == 3

\* Two particles at a whole separation 0..MaxSep along x, r2 its square.
InitZero ==
    /\ pot \in PotInputs
    /\ pin \in [r2 : {d * d : d \in 0..MaxSep}, ri : {1, 2}, rj : {1}]
    /\ pres = NoResult
    /\ s_tasks = <<>> /\ gpuid = <<>> /\ did = 0 /\ tasks_cuda = <<>> /\ cellpairs = <<>>
    /\ StepIdle
    /\ refresh = NoRefresh /\ SideIdle

\* One evaluation of a pair below the cutoff (lines 2198, 1397-1405): the
\* energy added to epot and f * dx.x subtracted from the force; a NaN in f
\* makes the product NaN whatever dx.x is.
ZeroEval ==
    /\ pres = NoResult
    /\ pres' = potential_eval_r2(pot, pin.ri, pin.rj, pin.r2)
    /\ UNCHANGED <<pot, pin, loadVars, stepVars>>
    /\ UNCHANGED <<refresh, sideVars>>

NextZero == ZeroEval

SpecZero == InitZero /\ [][NextZero]_vars

\* C26: the energy and the force of an evaluation at r2 = 0 are finite: the
\* distance was clamped to a valid value or the contribution is zero.
C26_ZeroSeparationIsFinite ==
    (pres # NoResult /\ pin.r2 = 0) => ~pres.nan

\* At every separation other than zero the energy and the force are finite.
C26_PositiveSeparationIsFinite ==
    (pres # NoResult /\ pin.r2 > 0) => (~pres.nan /\ pres.fden > 0)

\* ---------------------------------------------------------------------------
\* Vertex::replace of a surface and of a body (tfVertex.cpp)
\* ---------------------------------------------------------------------------

\* The bodies and the largest number of surfaces of a mesh.
BodyIds == 1 .. 2
MaxSurfaces == 8
SurfaceIds == 1 .. MaxSurfaces

\* The bodies a surface can separate: one body and the outside (0), or two
\* bodies.  A surface names them in b1 and b2.
Sides == <<<<1, 0>>, <<1, 2>>, <<2, 0>>>>

RECURSIVE SumCounts(_, _)
SumCounts(cnt, k) == IF k = 0 THEN 0 ELSE cnt[k] + SumCounts(cnt, k - 1)

\* The side of surface s when cnt[k] surfaces of each kind k are numbered in
\* the order of Sides.
SideOf(cnt, s) ==
    Sides[CHOOSE k \in 1 .. Len(Sides) :
              SumCounts(cnt, k - 1) < s /\ s <= SumCounts(cnt, k)]

\* A mesh of the documented form: every body consists of at least four
\* surfaces (Body, part_001 lines 109-118), and a body that has none is not
\* in the mesh.
MeshOf(cnt, flip) ==
    LET n  == SumCounts(cnt, Len(Sides))
        sd == [s \in SurfaceIds |-> IF s <= n THEN SideOf(cnt, s) ELSE <<0, 0>>]
        sw == [s \in SurfaceIds |-> flip /\ sd[s][2] # 0]
        ss == [b \in BodyIds |-> {s \in 1 .. n : b = sd[s][1] \/ b = sd[s][2]}]
    IN  [ surfaces |-> ss,
          b1       |-> [s \in SurfaceIds |-> IF sw[s] THEN sd[s][2] ELSE sd[s][1]],
          b2       |-> [s \in SurfaceIds |-> IF sw[s] THEN sd[s][1] ELSE sd[s][2]],
          live     |-> 1 .. n,
          bodies   |-> {b \in BodyIds : ss[b] # {}},
          before   |-> ss,
          op       |-> "none",
          hr       |-> "none" ]

\* The test "Prevent nonsensical resultant bodies" (lines 533, 537, 639, 647).
TooFewSurfaces_four(m, b) == Cardinality(m.surfaces[b]) < 4
TooFewSurfaces(m, b) == Cardinality(m.surfaces[b]) < 5

\* b->remove(s); s->remove(b) (lines 563-564, 569-570, 643-644, 651-652).
Unlink(m, b, s) ==
    [m EXCEPT !.surfaces[b] = @ \ {s},
              !.b1[s] = IF @ = b THEN 0 ELSE @,
              !.b2[s] = IF @ = b THEN 0 ELSE @]

\* Vertex::replace(Surface*): both bodies of the surface are tested first;
\* Vertex_SurfaceDisconnectReplace fails on a non-contiguous contact before
\* anything was removed from a body.
replace_surface(m, toReplace, contiguous) ==
    LET b1 == m.b1[toReplace]
        b2 == m.b2[toReplace]
        m1 == IF b1 # 0 THEN Unlink(m, b1, toReplace) ELSE m
        m2 == IF b2 # 0 THEN Unlink(m1, b2, toReplace) ELSE m1
    IN  IF b1 # 0 /\ TooFewSurfaces(m, b1) THEN [m EXCEPT !.hr = "E_FAIL"]
        ELSE IF b2 # 0 /\ TooFewSurfaces(m, b2) THEN [m EXCEPT !.hr = "E_FAIL"]
        ELSE IF ~contiguous THEN [m EXCEPT !.hr = "E_FAIL"]
        ELSE [m2 EXCEPT !.live = @ \ {toReplace}, !.hr = "S_OK"]

\* toReplace->surfaces in the order of the vector.
RECURSIVE Ascending(_)
Ascending(S) ==
    IF S = {} THEN <<>>
    ELSE LET x == CHOOSE y \in S : \A z \in S : y <= z
         IN  <<x>> \o Ascending(S \ {x})

\* One side of one surface in the loop of Vertex::replace(Body*), lines
\* 638-645 for b1 and 646-653 for b2.
DetachSide(m, toReplace, s, b) ==
    IF m.hr = "E_FAIL" \/ b = 0 \/ b = toReplace THEN m
    ELSE IF TooFewSurfaces(m, b) THEN [m EXCEPT !.hr = "E_FAIL"]
    ELSE Unlink(m, b, s)

\* The loop over b_surfaces (lines 631-654); bad is the surface, if any, whose
\* contact with a neighbour is not contiguous.  The function returns at the
\* first failure and leaves what it has removed so far removed.
RECURSIVE DetachSurfaces(_, _, _, _)
DetachSurfaces(m, toReplace, b_surfaces, bad) ==
    IF b_surfaces = <<>> \/ m.hr = "E_FAIL" THEN m
    ELSE LET s  == Head(b_surfaces)
             m1 == DetachSide(m, toReplace, s, m.b1[s])
             m2 == DetachSide(m1, toReplace, s, m1.b2[s])
         IN  IF s = bad THEN [m EXCEPT !.hr = "E_FAIL"]
             ELSE DetachSurfaces(m2, toReplace, Tail(b_surfaces), bad)

\* Vertex::replace(Body*): after the loop the surfaces of the body and the
\* body itself are destroyed (lines 658-671).
replace_body(m, toReplace, bad) ==
    LET m1 == DetachSurfaces([m EXCEPT !.hr = "none"], toReplace,
                             Ascending(m.surfaces[toReplace]), bad)
        gone == m1.surfaces[toReplace]
    IN  IF m1.hr = "E_FAIL" THEN m1
        ELSE [m1 EXCEPT !.live = @ \ gone,
                        !.surfaces[toReplace] = {},
                        !.b1 = [s \in SurfaceIds |-> IF s \in gone THEN 0 ELSE @[s]],
                        !.b2 = [s \in SurfaceIds |-> IF s \in gone THEN 0 ELSE @[s]],
                        !.bodies = @ \ {toReplace},
                        !.hr = "S_OK"]

InitReplace ==
    /\ \E cnt \in [1 .. Len(Sides) -> 0 .. MaxSurfaces], flip \in BOOLEAN :
          /\ SumCounts(cnt, Len(Sides)) <= MaxSurfaces
          /\ \A b \in BodyIds :
                Cardinality(MeshOf(cnt, flip).surfaces[b]) \in {0} \cup (4 .. MaxSurfaces)
          /\ mesh = MeshOf(cnt, flip)
    /\ solver = <<>> /\ alloc = <<>>
    /\ pot = NoPot /\ pin = <<>> /\ pres = NoResult
    /\ s_tasks = <<>> /\ gpuid = <<>> /\ did = 0
    /\ tasks_cuda = <<>> /\ cellpairs = <<>>
    /\ StepIdle
    /\ refresh = NoRefresh

ReplaceSurface ==
    /\ \E s \in mesh.live, contiguous \in BOOLEAN :
          mesh' = [replace_surface(mesh, s, contiguous) EXCEPT
                      !.before = mesh.surfaces, !.op = "surface"]
    /\ UNCHANGED <<potVars, loadVars, stepVars, refresh, solver, alloc>>

ReplaceBody ==
    /\ \E b \in mesh.bodies : \E bad \in {0} \cup mesh.surfaces[b] :
          mesh' = [replace_body(mesh, b, bad) EXCEPT
                      !.before = mesh.surfaces, !.op = "body"]
    /\ UNCHANGED <<potVars, loadVars, stepVars, refresh, solver, alloc>>

NextReplace ==
    \/ ReplaceSurface
    \/ ReplaceBody

SpecReplace == InitReplace /\ [][NextReplace]_vars

\* The bodies that lost a surface in the last operation and are still in the
\* mesh.
LostSurface == {b \in mesh.bodies : mesh.surfaces[b] # mesh.before[b]}

\* C27: after a successful Vertex::replace of a surface or of a body, every
\* body that remains in the mesh and lost a surface in the operation still
\* consists of at least four surfaces.
C27_ReplaceKeepsFourSurfaces ==
    mesh.hr = "S_OK" =>
        \A b \in LostSurface : Cardinality(mesh.surfaces[b]) >= 4

\* A body was replaced and a neighbour that shared a surface with it remains
\* with exactly four surfaces.
C27_Witness ==
    /\ mesh.hr = "S_OK" /\ mesh.op = "body"
    /\ \E b \in LostSurface : Cardinality(mesh.surfaces[b]) = 4

\* A surface between two bodies was replaced and both remain.
C27_WitnessSurface ==
    /\ mesh.hr = "S_OK" /\ mesh.op = "surface"
    /\ Cardinality(LostSurface) = 2

(***************************************************************************)
(* The pairs selected by the left pass and by the right pass               *)
(***************************************************************************)

\* The pass evaluated the pair for particle pi of cell ci: its walk reached
\* the partner and the distance test passed.
Evaluated(kern, ci, pi, cj, pj) ==
    \E rec \in tested :
        /\ rec.kern = kern /\ rec.ev
        /\ rec.ci = ci /\ rec.pi = pi /\ rec.cj = cj /\ rec.pj = pj

\* The left kernel launched before a right kernel (lines 3145-3151).
LeftOf(kern) == IF kern = "pair_right" THEN "pair_left" ELSE "pair_left_fluxonly"

\* When the right pass is complete, it has evaluated for q exactly the pairs
\* (p, q) the left pass has evaluated for p.
PassesSelectSamePairs ==
    (pc = "dev" /\ kq # <<>> /\ Head(kq) \in RightKernels /\ KernelComplete) =>
        \A k \in PairTasksOf :
            LET i == tasks_cuda[k].i
                j == tasks_cuda[k].j
            IN  \A p \in 0..(Len(parts[i]) - 1) : \A q \in 0..(Len(parts[j]) - 1) :
                    Evaluated(LeftOf(Head(kq)), i, p, j, q)
                        <=> Evaluated(Head(kq), j, q, i, p)

\* C28 (as stated): a cross-cell pair (p, q) contributes to p in the left
\* pass if and only if it contributes to q in the right pass, on every step.
C28_PassesSelectSamePairs == PassesSelectSamePairs

\* The same on the steps that rebuild the sort lists only.
C28_PassesSelectSamePairsOnRebuild == verlet_rebuild => PassesSelectSamePairs

(***************************************************************************)
(* Allocation of the particle-state buffers                                *)
(***************************************************************************)

\* Largest e->nr_fluxes_cuda - 1.
MaxStates == 2

\* A pointer of the engine is NULL, holds a buffer, or holds the address of
\* a buffer that was freed.  free and cudaFree of NULL do nothing.
AfterFree(p)    == IF p = "held" THEN "dangling" ELSE p
FreesTwice(p)   == p = "dangling"
Overwrites(p)   == p = "held"

\* The engine after engine_init with nr_fluxsteps = fs and nr_fluxes_cuda =
\* nf: no buffer of the particle states was allocated.
NoBuffers(nf, fs) ==
    [ nr_fluxes_cuda                |-> nf,
      nr_fluxsteps                  |-> fs,
      engine_cuda_nr_states         |-> 0,
      part_states_cuda_local        |-> "null",
      part_species_flags_cuda_local |-> "null",
      part_states_cuda              |-> [d \in Devices |-> "null"],
      part_species_flags_cuda       |-> [d \in Devices |-> "null"],
      badfree  |-> FALSE,    \* a pointer to a freed buffer was freed again
      leaked   |-> FALSE,    \* the last pointer to a buffer was overwritten
      missing  |-> FALSE,    \* a step read a flag buffer that is not there
      resized  |-> FALSE,    \* nr_fluxsteps changed while buffers were held
      op       |-> "init" ]

\* The test e->nr_fluxsteps > 1 of the species-flag buffers (lines 3817,
\* 3826, 3846, 3855).
FlagsUsed(a) == a.nr_fluxsteps > 1

\* engine_cuda_finalize_particle_states (lines 3836-3861).
engine_cuda_finalize_particle_states(a) ==
    IF a.engine_cuda_nr_states = 0 THEN a
    ELSE [a EXCEPT
            !.part_states_cuda = [d \in Devices |-> AfterFree(@[d])],
            !.part_species_flags_cuda =
                [d \in Devices |-> IF FlagsUsed(a) THEN AfterFree(@[d]) ELSE @[d]],
            !.part_states_cuda_local = AfterFree(@),
            !.part_species_flags_cuda_local = IF FlagsUsed(a) THEN AfterFree(@) ELSE @,
            !.badfree = \/ @
                        \/ FreesTwice(a.part_states_cuda_local)
                        \/ \E d \in Devices : FreesTwice(a.part_states_cuda[d])
                        \/ /\ FlagsUsed(a)
                           /\ \/ FreesTwice(a.part_species_flags_cuda_local)
                              \/ \E d \in Devices :
                                    FreesTwice(a.part_species_flags_cuda[d]),
            !.engine_cuda_nr_states = 0]

\* engine_cuda_allocate_particle_states (lines 3805-3834); malloc and
\* cudaMalloc succeed.
engine_cuda_allocate_particle_states(a) ==
    LET nr_states == a.nr_fluxes_cuda - 1
        f == IF a.engine_cuda_nr_states > 0
             THEN engine_cuda_finalize_particle_states(a) ELSE a
    IN  IF nr_states <= 0 \/ nr_states = a.engine_cuda_nr_states THEN a
        ELSE [f EXCEPT
                !.part_states_cuda_local = "held",
                !.part_species_flags_cuda_local = IF FlagsUsed(f) THEN "held" ELSE @,
                !.part_states_cuda = [d \in Devices |-> "held"],
                !.part_species_flags_cuda =
                    [d \in Devices |-> IF FlagsUsed(f) THEN "held" ELSE @[d]],
                !.leaked = \/ @
                           \/ Overwrites(f.part_states_cuda_local)
                           \/ \E d \in Devices : Overwrites(f.part_states_cuda[d])
                           \/ /\ FlagsUsed(f)
                              /\ \/ Overwrites(f.part_species_flags_cuda_local)
                                 \/ \E d \in Devices :
                                       Overwrites(f.part_species_flags_cuda[d]),
                !.engine_cuda_nr_states = nr_states]

\* engine_cuda_refresh_particle_states (lines 3863-3879).
engine_cuda_refresh_particle_states(a) ==
    engine_cuda_allocate_particle_states(engine_cuda_finalize_particle_states(a))

\* engine_nonbond_cuda with nr_states = e->nr_fluxes_cuda - 1 > 0 and
\* e->nr_fluxsteps > 1 fills part_species_flags_cuda_local (line 3032),
\* copies it to part_species_flags_cuda[did] (line 3113) and hands that to
\* the integration kernel (line 3150).
ReadsFlags(a) == a.nr_fluxes_cuda - 1 > 0 /\ FlagsUsed(a)

FlagsThere(a) ==
    /\ a.part_species_flags_cuda_local = "held"
    /\ \A d \in Devices : a.part_species_flags_cuda[d] = "held"

InitStates ==
    /\ \E nf \in 1 .. (MaxStates + 1), fs \in 1 .. MaxFluxSteps :
          alloc = NoBuffers(nf, fs)
    /\ mesh = <<>> /\ solver = <<>>
    /\ pot = NoPot /\ pin = <<>> /\ pres = NoResult
    /\ s_tasks = <<>> /\ gpuid = <<>> /\ did = 0
    /\ tasks_cuda = <<>> /\ cellpairs = <<>>
    /\ StepIdle
    /\ refresh = NoRefresh

StatesAllocate ==
    /\ alloc' = [engine_cuda_allocate_particle_states(alloc) EXCEPT !.op = "allocate"]
    /\ UNCHANGED <<potVars, loadVars, stepVars, refresh, meshVars>>

StatesFinalize ==
    /\ alloc' = [engine_cuda_finalize_particle_states(alloc) EXCEPT !.op = "finalize"]
    /\ UNCHANGED <<potVars, loadVars, stepVars, refresh, meshVars>>

StatesRefresh ==
    /\ alloc' = [engine_cuda_refresh_particle_states(alloc) EXCEPT !.op = "refresh"]
    /\ UNCHANGED <<potVars, loadVars, stepVars, refresh, meshVars>>

\* e->nr_fluxsteps is assigned a new value.
SetFluxSteps ==
    /\ \E fs \in (1 .. MaxFluxSteps) \ {alloc.nr_fluxsteps} :
          alloc' = [alloc EXCEPT !.nr_fluxsteps = fs,
                                 !.resized = @ \/ alloc.engine_cuda_nr_states > 0,
                                 !.op = "fluxsteps"]
    /\ UNCHANGED <<potVars, loadVars, stepVars, refresh, meshVars>>

\* The fluxes are loaded for another number of species and the buffers are
\* allocated for it (engine_cuda_load, lines 4129-4133).
SetFluxes ==
    /\ \E nf \in (1 .. (MaxStates + 1)) \ {alloc.nr_fluxes_cuda} :
          alloc' = [engine_cuda_allocate_particle_states(
                        [alloc EXCEPT !.nr_fluxes_cuda = nf]) EXCEPT !.op = "fluxes"]
    /\ UNCHANGED <<potVars, loadVars, stepVars, refresh, meshVars>>

\* engine_nonbond_cuda on an engine whose buffers were allocated for its
\* number of species.
StatesStep ==
    /\ alloc.engine_cuda_nr_states = alloc.nr_fluxes_cuda - 1
    /\ alloc' = [alloc EXCEPT
                    !.missing = @ \/ (ReadsFlags(alloc) /\ ~FlagsThere(alloc)),
                    !.op = "step"]
    /\ UNCHANGED <<potVars, loadVars, stepVars, refresh, meshVars>>

NextStates ==
    \/ StatesAllocate
    \/ StatesFinalize
    \/ StatesRefresh
    \/ SetFluxSteps
    \/ SetFluxes
    \/ StatesStep

SpecStates == InitStates /\ [][NextStates]_vars

\* No buffer is held by a pointer the engine's bookkeeping has given up.
NoneLeaked ==
    /\ ~alloc.leaked
    /\ alloc.engine_cuda_nr_states = 0 =>
          /\ alloc.part_states_cuda_local # "held"
          /\ alloc.part_species_flags_cuda_local # "held"
          /\ \A d \in Devices : /\ alloc.part_states_cuda[d] # "held"
                                /\ alloc.part_species_flags_cuda[d] # "held"

BuffersSound == ~alloc.badfree /\ NoneLeaked /\ ~alloc.missing

\* C29 (as stated): for any sequence of allocate, finalize and refresh
\* interleaved with changes of the number of flux sub-steps, every buffer
\* that is freed was allocated and not yet freed, none is leaked, and the
\* species-flag buffer exists whenever a step with more than one sub-step
\* reads it.
C29_BuffersSoundUnderSubStepChanges == BuffersSound

\* The same as long as the number of sub-steps changes only while no buffer
\* is held.
C29_BuffersSoundWithoutSubStepChanges == ~alloc.resized => BuffersSound

\* Each of the three failures alone.
C29_NoDoubleFree == ~alloc.badfree
C29_NoLeak == NoneLeaked
C29_FlagsExistWhenRead == ~alloc.missing

(***************************************************************************)
(* MeshSolver::update and the dirty flags (tfMeshSolver.cpp)               *)
(***************************************************************************)

\* The Mesh objects that can be loaded into the solver.
MaxMeshes == 3
MeshIds == 1 .. MaxMeshes

\* The solver after MeshSolver::init (lines 78-90): no mesh is loaded and the
\* force buffer holds one slot.  isDirty[m], back[m] (m->_solver is this
\* solver) and verts[m] (m->vertices.size()) are the fields of Mesh m; ran
\* tells whether the last operation recomputed the mesh state, was and force
\* are what the last update saw, arg the mesh the last loadMesh or
\* unloadMesh was called with, oob whether the last operation accessed the
\* force buffer beyond its end.
NewSolver(verts) ==
    [ _isDirty    |-> FALSE,
      meshes      |-> <<>>,
      isDirty     |-> [m \in MeshIds |-> FALSE],
      back        |-> [m \in MeshIds |-> FALSE],
      verts       |-> verts,
      _bufferSize |-> 1,
      op          |-> "init",
      hr          |-> "S_OK",
      arg         |-> 0,
      was         |-> FALSE,
      force       |-> FALSE,
      ran         |-> FALSE,
      oob         |-> FALSE ]

\* The solver at the start of operation op: the record of the operation
\* before it is cleared.
Entering(s, op) ==
    [s EXCEPT !.op = op, !.hr = "S_OK", !.arg = 0,
              !.was = FALSE, !.force = FALSE, !.ran = FALSE, !.oob = FALSE]

\* The meshes in the solver's list.
LoadedMeshes(s) == {s.meshes[i] : i \in 1 .. Len(s.meshes)}

\* MeshSolver::isDirty (lines 385-392).
isDirty(s) == s._isDirty \/ \E m \in LoadedMeshes(s) : s.isDirty[m]

\* MeshSolver::setDirty (lines 394-399).
setDirty(s, dirty) ==
    [s EXCEPT !._isDirty = dirty,
              !.isDirty = [m \in MeshIds |-> IF m \in LoadedMeshes(s) THEN dirty ELSE @[m]]]

\* MeshSolver::positionChanged (lines 207-247): the state of every loaded
\* mesh is recomputed and the flags are cleared.
positionChanged(s) ==
    [s EXCEPT !._isDirty = FALSE,
              !.isDirty = [m \in MeshIds |-> IF m \in LoadedMeshes(s) THEN FALSE ELSE @[m]],
              !.ran = TRUE]

\* MeshSolver::update (lines 249-255).
update(s, force) ==
    IF ~isDirty(s) \/ force THEN s ELSE positionChanged(s)

\* MeshSolver::loadMesh (lines 132-142).
loadMesh(s, msh) ==
    IF msh \in LoadedMeshes(s) THEN [s EXCEPT !.hr = "E_FAIL"]
    ELSE [s EXCEPT !.meshes = Append(@, msh),
                   !.back[msh] = TRUE,
                   !.isDirty[msh] = TRUE,
                   !._isDirty = TRUE,
                   !.hr = "S_OK"]

\* The list without its entry at position i.
EraseAt(q, i) == [k \in 1 .. (Len(q) - 1) |-> IF k < i THEN q[k] ELSE q[k + 1]]

PositionOf(q, msh) == CHOOSE i \in 1 .. Len(q) : q[i] = msh

\* The mesh (*itr) names after meshes.erase(itr) (lines 147-149).  The
\* iterator is used after the erase that invalidates it: the entries behind
\* the erased one have moved one place down, so it names the mesh that
\* followed; behind the last entry it reads the place the list no longer
\* owns, which holds what the build left there (stale: the erased mesh, or
\* no mesh of the solver, 0).
ClearedBy(s, msh, stale) ==
    LET i == PositionOf(s.meshes, msh)
    IN  IF i < Len(s.meshes) THEN s.meshes[i + 1] ELSE stale

\* MeshSolver::unloadMesh (lines 144-154).
unloadMesh(s, msh, stale) ==
    IF msh \notin LoadedMeshes(s) THEN [s EXCEPT !.hr = "E_FAIL"]
    ELSE LET c == ClearedBy(s, msh, stale)
         IN  [s EXCEPT !.meshes = EraseAt(@, PositionOf(s.meshes, msh)),
                       !._isDirty = TRUE,
                       !.back = [m \in MeshIds |-> IF m = c THEN FALSE ELSE @[m]],
                       !.hr = "S_OK"]

InitSolver ==
    /\ solver = NewSolver([m \in MeshIds |-> 1])
    /\ mesh = <<>> /\ alloc = <<>>
    /\ pot = NoPot /\ pin = <<>> /\ pres = NoResult
    /\ s_tasks = <<>> /\ gpuid = <<>> /\ did = 0
    /\ tasks_cuda = <<>> /\ cellpairs = <<>>
    /\ StepIdle
    /\ refresh = NoRefresh

LoadMesh ==
    /\ \E m \in MeshIds :
          solver' = [loadMesh(Entering(solver, "load"), m) EXCEPT !.arg = m]
    /\ UNCHANGED <<potVars, loadVars, stepVars, refresh, mesh, alloc>>

UnloadMesh ==
    /\ \E m \in MeshIds : \E stale \in {0, m} :
          solver' = [unloadMesh(Entering(solver, "unload"), m, stale) EXCEPT !.arg = m]
    /\ UNCHANGED <<potVars, loadVars, stepVars, refresh, mesh, alloc>>

\* A loaded mesh is edited and marks itself (Mesh::isDirty, part_004 line 54).
MeshEdit ==
    /\ \E m \in LoadedMeshes(solver) :
          solver' = [Entering(solver, "edit") EXCEPT !.isDirty[m] = TRUE]
    /\ UNCHANGED <<potVars, loadVars, stepVars, refresh, mesh, alloc>>

SetDirty ==
    /\ \E dirty \in BOOLEAN :
          solver' = setDirty(Entering(solver, "setDirty"), dirty)
    /\ UNCHANGED <<potVars, loadVars, stepVars, refresh, mesh, alloc>>

\* MeshSolver::postStepStart (lines 346-350): setDirty(true), positionChanged.
PostStepStart ==
    /\ solver' = positionChanged(setDirty(Entering(solver, "postStepStart"), TRUE))
    /\ UNCHANGED <<potVars, loadVars, stepVars, refresh, mesh, alloc>>

Update ==
    /\ \E force \in BOOLEAN :
          solver' = [update(Entering(solver, "update"), force) EXCEPT
                        !.was = isDirty(solver),
                        !.force = force]
    /\ UNCHANGED <<potVars, loadVars, stepVars, refresh, mesh, alloc>>

NextSolver ==
    \/ LoadMesh
    \/ UnloadMesh
    \/ MeshEdit
    \/ SetDirty
    \/ PostStepStart
    \/ Update

SpecSolver == InitSolver /\ [][NextSolver]_vars

\* C30 (as stated): update(force) recomputes the mesh state, leaving no
\* dirty flag set, whenever the solver is dirty and also when force is true
\* even if the solver is not dirty; it skips the recomputation only when the
\* solver is clean and force is false.
C30_UpdateRecomputesWhenDirtyOrForced ==
    solver.op = "update" =>
        /\ solver.ran <=> (solver.was \/ solver.force)
        /\ solver.ran => ~isDirty(solver)

\* What update does: it recomputes exactly when the solver is dirty and
\* force is false.
C30_UpdateRecomputesWhenDirtyAndNotForced ==
    solver.op = "update" =>
        /\ solver.ran <=> (solver.was /\ ~solver.force)
        /\ solver.ran => ~isDirty(solver)

\* A forced update of a dirty solver left the dirty flags set.
C30_ForcedUpdateLeftDirty ==
    solver.op = "update" /\ solver.force /\ solver.was /\ isDirty(solver)

(***************************************************************************)
(* MeshSolver::unloadMesh and the back-pointers of the meshes              *)
(***************************************************************************)

InitUnload == InitSolver

NextUnload ==
    \/ LoadMesh
    \/ UnloadMesh

SpecUnload == InitUnload /\ [][NextUnload]_vars

\* The step is a successful unloadMesh(m).
Unloads(m) ==
    /\ solver'.op = "unload" /\ solver'.hr = "S_OK" /\ solver'.arg = m

\* The unloaded mesh is the last of the list.
LastOfList(m) == solver.meshes[Len(solver.meshes)] = m

\* After unloadMesh(m): m is not in the list, m->_solver is NULL, and the
\* back-pointer of every other mesh is what it was.
Detaches(m) ==
    /\ m \notin LoadedMeshes(solver')
    /\ ~solver'.back[m]
    /\ \A o \in MeshIds \ {m} : solver'.back[o] = solver.back[o]

\* C31 (as stated): after a successful unloadMesh(m), m is no longer in the
\* solver's list, m's back-pointer is NULL and the back-pointer of every
\* other loaded mesh is unchanged, whether m was the first, a middle or the
\* last (or only) loaded mesh.
C31_UnloadDetachesOnlyTheMesh ==
    [][\A m \in MeshIds : Unloads(m) => Detaches(m)]_vars

\* What the code guarantees: the mesh leaves the list, wherever it was, and
\* the solver is dirty.
C31_UnloadRemovesFromList ==
    [][\A m \in MeshIds :
          Unloads(m) => (m \notin LoadedMeshes(solver') /\ solver'._isDirty)]_vars

\* The claim for a mesh that is the last of the list, when the place behind
\* the list still holds its address.
C31_UnloadOfLastDetaches ==
    [][\A m \in MeshIds :
          (Unloads(m) /\ LastOfList(m) /\ ~solver'.back[m]) => Detaches(m)]_vars

\* A mesh was unloaded and a mesh that is loaded has lost its back-pointer.
C31_NeighbourLostBackPointer ==
    /\ solver.op = "unload" /\ solver.hr = "S_OK"
    /\ \E m \in LoadedMeshes(solver) : ~solver.back[m]

(***************************************************************************)
(* The force buffer of the solver                                          *)
(***************************************************************************)

\* Largest number of vertex slots of a mesh.
MaxVertices == 2

\* The sum of sizeVertices() over the first n loaded meshes (lines 271-274),
\* which is also the offset j of the mesh behind them (lines 285, 311, 322,
\* 340).
RECURSIVE SlotsBefore(_, _)
SlotsBefore(s, n) ==
    IF n = 0 THEN 0 ELSE s.verts[s.meshes[n]] + SlotsBefore(s, n - 1)

\* The vertex slots the loops over the meshes address: j + k for every k
\* below m->vertices.size() of every loaded mesh.
SlotsAddressed(s) ==
    UNION { { SlotsBefore(s, i - 1) + k : k \in 0 .. (s.verts[s.meshes[i]] - 1) } :
              i \in 1 .. Len(s.meshes) }

\* An access of three values at slot g of a buffer of _bufferSize slots.
InBuffer(s, g) == g < s._bufferSize

\* MeshSolver::compact (lines 100-110).
compact(s) ==
    IF s._bufferSize > 1 THEN [s EXCEPT !._bufferSize = 1] ELSE s

\* MeshSolver::preStepStart (lines 257-314): the buffer is enlarged to
\* _totalVertices slots when it holds fewer, cleared over its whole size, and
\* the force of every vertex is written to its slot.
preStepStart(s) ==
    LET total == SlotsBefore(s, Len(s.meshes))
        s1    == IF total > s._bufferSize THEN [s EXCEPT !._bufferSize = total] ELSE s
    IN  [s1 EXCEPT !.oob = \E g \in SlotsAddressed(s1) : ~InBuffer(s1, g)]

\* MeshSolver::preStepJoin (lines 316-344): the slot of every vertex is read
\* and added to the force of its particle.
preStepJoin(s) ==
    [s EXCEPT !.oob = \E g \in SlotsAddressed(s) : ~InBuffer(s, g)]

InitBuffer ==
    /\ \E verts \in [MeshIds -> 0 .. MaxVertices] : solver = NewSolver(verts)
    /\ mesh = <<>> /\ alloc = <<>>
    /\ pot = NoPot /\ pin = <<>> /\ pres = NoResult
    /\ s_tasks = <<>> /\ gpuid = <<>> /\ did = 0
    /\ tasks_cuda = <<>> /\ cellpairs = <<>>
    /\ StepIdle
    /\ refresh = NoRefresh

Compact ==
    /\ solver' = compact(Entering(solver, "compact"))
    /\ UNCHANGED <<potVars, loadVars, stepVars, refresh, mesh, alloc>>

PreStepStart ==
    /\ solver' = preStepStart(Entering(solver, "preStepStart"))
    /\ UNCHANGED <<potVars, loadVars, stepVars, refresh, mesh, alloc>>

PreStepJoin ==
    /\ solver' = preStepJoin(Entering(solver, "preStepJoin"))
    /\ UNCHANGED <<potVars, loadVars, stepVars, refresh, mesh, alloc>>

NextBuffer ==
    \/ LoadMesh
    \/ Compact
    \/ PreStepStart
    \/ PreStepJoin

SpecBuffer == InitBuffer /\ [][NextBuffer]_vars

\* C32 (as stated): for any sequence of loadMesh, compact, preStepStart and
\* preStepJoin, every access of the force buffer by preStepStart or
\* preStepJoin stays within the buffer: the buffer holds three values for
\* every vertex slot of every loaded mesh.
C32_ForceBufferAccessInBounds ==
    solver.op \in {"preStepStart", "preStepJoin"} =>
        /\ ~solver.oob
        /\ SlotsBefore(solver, Len(solver.meshes)) <= solver._bufferSize

\* What the code guarantees: preStepStart stays within the buffer, and so
\* does a preStepJoin that directly follows a preStepStart.
C32_StartAccessInBounds ==
    solver.op = "preStepStart" =>
        /\ ~solver.oob
        /\ SlotsBefore(solver, Len(solver.meshes)) <= solver._bufferSize

C32_JoinAfterStartInBounds ==
    [][(solver.op = "preStepStart" /\ solver'.op = "preStepJoin") => ~solver'.oob]_vars

\* preStepJoin read beyond a buffer of one slot while the loaded meshes hold
\* more vertex slots.
C32_JoinBeyondCompactedBuffer ==
    /\ solver.op = "preStepJoin" /\ solver.oob
    /\ solver._bufferSize = 1
    /\ SlotsBefore(solver, Len(solver.meshes)) > 1

(***************************************************************************)
(* Vertex::split (tfVertex.cpp)                                            *)
(***************************************************************************)

\* Largest number of neighbour vertices of the vertex that is split.
MaxNeighbors == 3

\* The vertex is at the origin of the axis of the separation; sep and the
\* positions of its neighbours are coordinates along that axis.
SplitCoords == {-1, 0, 1}

Sign(x) == IF x > 0 THEN 1 ELSE IF x < 0 THEN -1 ELSE 0

\* The value of an HRESULT in a condition: if(hr) is taken when hr is not
\* zero, and S_OK is zero.
Taken(hr) == hr # "S_OK"

\* Vertex::splitPlan (lines 910-947): the neighbours at a distance >= 0 from
\* the cut plane through the vertex, orthogonal to sep, go to the new vertex,
\* the others stay.  verts_v and verts_new_v come back as the caller passed
\* them (empty) when the separation is zero.
splitPlan(sep, nbs) ==
    LET side(k)  == Sign(sep) * nbs[k]
        verts_new_v == {k \in 1 .. Len(nbs) : side(k) >= 0}
        verts_v     == {k \in 1 .. Len(nbs) : side(k) < 0}
    IN  IF sep = 0 THEN [hr |-> "E_FAIL", verts_v |-> {}, verts_new_v |-> {}]
        ELSE IF Len(nbs) = 0 THEN [hr |-> "E_FAIL", verts_v |-> {}, verts_new_v |-> {}]
        ELSE IF verts_new_v = {} \/ verts_v = {}
             THEN [hr |-> "S_OK", verts_v |-> {}, verts_new_v |-> {}]
        ELSE [hr |-> "S_OK", verts_v |-> verts_v, verts_new_v |-> verts_new_v]

\* Vertex::splitExecute (lines 949-1015): a vertex is created at half the
\* separation from the vertex, unless Vertex_create fails, and takes over
\* the neighbours of verts_new_v.
splitExecute(sep, verts_v, verts_new_v, created) ==
    IF created THEN [u |-> "new", moved |-> verts_new_v] ELSE [u |-> "NULL", moved |-> {}]

\* The condition of Vertex::split (line 1021): if(splitPlan(...)).
RunsExecute(hr) == Taken(hr)

\* Vertex::split (lines 1017-1034).
split(sep, nbs, created) ==
    LET plan == splitPlan(sep, nbs)
        ex   == IF RunsExecute(plan.hr)
                THEN splitExecute(sep, plan.verts_v, plan.verts_new_v, created)
                ELSE [u |-> "NULL", moved |-> {}]
    IN  [u |-> ex.u, moved |-> ex.moved, plan |-> plan,
         executed |-> RunsExecute(plan.hr), created |-> created]

InitSplit ==
    /\ pin \in [sep : SplitCoords, nbs : SeqsUpTo(SplitCoords, MaxNeighbors)]
    /\ pres = NoResult
    /\ pot = NoPot
    /\ s_tasks = <<>> /\ gpuid = <<>> /\ did = 0 /\ tasks_cuda = <<>> /\ cellpairs = <<>>
    /\ StepIdle
    /\ refresh = NoRefresh /\ SideIdle

SplitCall ==
    /\ pres = NoResult
    /\ \E created \in BOOLEAN : pres' = split(pin.sep, pin.nbs, created)
    /\ UNCHANGED <<pot, pin, loadVars, stepVars>>
    /\ UNCHANGED <<refresh, sideVars>>

NextSplit == SplitCall

SpecSplit == InitSplit /\ [][NextSplit]_vars

\* The call has returned.
SplitDone == pres # NoResult

\* The separation is not zero and the vertex has neighbours on both sides of
\* the cut plane.
Splittable ==
    /\ pin.sep # 0
    /\ \E k \in 1 .. Len(pin.nbs) : Sign(pin.sep) * pin.nbs[k] >= 0
    /\ \E k \in 1 .. Len(pin.nbs) : Sign(pin.sep) * pin.nbs[k] < 0

\* C33 (as stated): split with a non-zero separation on a vertex with
\* neighbours on both sides of the cut plane creates and returns a new
\* vertex; it returns NULL only when the plan fails or no valid partition
\* exists.  created tells that Vertex_create can provide a vertex.
C33_SplitReturnsNewVertex ==
    (SplitDone /\ Splittable /\ pres.created) => pres.u = "new"

\* What split does: the plan is executed exactly when it failed, so a vertex
\* that can be split is never split, and a vertex is created only for a zero
\* separation or a vertex without neighbours, with no neighbour moved to it.
C33_SplitExecutesOnlyFailedPlans ==
    SplitDone =>
        /\ pres.executed <=> (pin.sep = 0 \/ Len(pin.nbs) = 0)
        /\ Splittable => pres.u = "NULL"
        /\ pres.u = "new" => pres.moved = {}

\* A vertex with a neighbour on each side was split with a non-zero
\* separation and NULL came back.
C33_SplittableReturnedNull == SplitDone /\ Splittable /\ pres.u = "NULL"

(***************************************************************************)
(* Vertex::replace that fails                                              *)
(***************************************************************************)

\* The last operation was a replace that returned failure.
ReplaceFailed == mesh.op \in {"surface", "body"} /\ mesh.hr = "E_FAIL"

\* C34 (as stated): when Vertex::replace of a body or of a surface returns
\* failure, the mesh topology is unchanged: no surface has been detached
\* from a body.
C34_FailedReplaceLeavesTopology ==
    ReplaceFailed => \A b \in BodyIds : mesh.surfaces[b] = mesh.before[b]

\* A failed replace of a surface has detached no surface from a body: both
\* bodies are tested before anything is removed, and a non-contiguous
\* contact is found before the surface leaves its bodies.
C34_FailedSurfaceReplaceDetachesNothing ==
    (ReplaceFailed /\ mesh.op = "surface") =>
        \A b \in BodyIds : mesh.surfaces[b] = mesh.before[b]

\* A failed replace of a body has left a neighbour body with fewer surfaces
\* than it had, and the body that was to be replaced is still in the mesh.
C34_FailedBodyReplaceDetached ==
    /\ ReplaceFailed /\ mesh.op = "body"
    /\ \E b \in mesh.bodies : mesh.surfaces[b] # mesh.before[b]


\* ---------------------------------------------------------------------------
\* Vertex::merge and VertexHandle::merge (tfVertex.cpp)
\* ---------------------------------------------------------------------------

\* Positions along one axis; even, so that half of a difference is exact.
MergeCoords == {-2, 0, 2}

\* Length coefficients in halves: 0, 1/2 and 1.
LenCfs == {0, 1, 2}

\* d * lenCf for a coefficient given in halves.
Scaled(d, lenCf) == (d * lenCf) \div 2

\* A surface that both vertices define must keep three vertices.
TooFewVertices(nverts) == nverts < 4

\* Vertex::merge(toRemove, lenCf) on a kept vertex at keep and a vertex at
\* rem that share a surface of nverts vertices: fails before any change when
\* the surface is too small, else moves the kept vertex and destroys toRemove.
Vertex_merge(keep, rem, nverts, lenCf) ==
    IF TooFewVertices(nverts)
    THEN [hr |-> "E_FAIL", pos |-> keep, destroyed |-> FALSE]
    ELSE [hr |-> "S_OK", pos |-> keep + Scaled(rem - keep, lenCf),
          destroyed |-> TRUE]

\* The coefficient VertexHandle::merge hands to Vertex::merge: the call names
\* no coefficient, so the default of the declaration is used.
PassedLenCf(lenCf, dflt) == dflt

\* VertexHandle::merge(toRemove, lenCf): toRemove.id is 1 for a valid handle
\* and -1 for an invalid one; dflt is the default coefficient of Vertex::merge.
VertexHandle_merge(keep, rem, nverts, id, lenCf, dflt) ==
    IF id < 0
    THEN [hr |-> "E_FAIL", pos |-> keep, destroyed |-> FALSE, id |-> id,
          via |-> "handle"]
    ELSE LET res == Vertex_merge(keep, rem, nverts, PassedLenCf(lenCf, dflt))
         IN  [hr |-> res.hr, pos |-> res.pos, destroyed |-> res.destroyed,
              id |-> IF res.hr = "S_OK" THEN -1 ELSE id, via |-> "handle"]

InitMerge ==
    /\ pin \in [keep : MergeCoords, rem : MergeCoords, nverts : 3 .. 4,
                id : {-1, 1}, lenCf : LenCfs, dflt : LenCfs]
    /\ pres = NoResult
    /\ pot = NoPot
    /\ s_tasks = <<>> /\ gpuid = <<>> /\ did = 0 /\ tasks_cuda = <<>> /\ cellpairs = <<>>
    /\ StepIdle
    /\ refresh = NoRefresh /\ SideIdle

\* A caller holding the vertices merges them directly.
VertexMerge ==
    /\ pres = NoResult
    /\ pin.id >= 0
    /\ LET res == Vertex_merge(pin.keep, pin.rem, pin.nverts, pin.lenCf)
       IN  pres' = [hr |-> res.hr, pos |-> res.pos, destroyed |-> res.destroyed,
                    id |-> pin.id, via |-> "vertex"]
    /\ UNCHANGED <<pot, pin, loadVars, stepVars>>
    /\ UNCHANGED <<refresh, sideVars>>

\* A caller holding handles merges through them.
HandleMerge ==
    /\ pres = NoResult
    /\ pres' = VertexHandle_merge(pin.keep, pin.rem, pin.nverts, pin.id,
                                  pin.lenCf, pin.dflt)
    /\ UNCHANGED <<pot, pin, loadVars, stepVars>>
    /\ UNCHANGED <<refresh, sideVars>>

NextMerge == VertexMerge \/ HandleMerge

SpecMerge == InitMerge /\ [][NextMerge]_vars

\* The merge through handles has returned.
HandleMerged == pres # NoResult /\ pres.via = "handle"

\* C35 (as stated): VertexHandle::merge(toRemove, lenCf) has the effect of
\* Vertex::merge(toRemove, lenCf): the kept vertex ends at
\* keptPosition + (removedPosition - keptPosition) * lenCf for the lenCf the
\* caller passed, and on success the toRemove handle is invalidated.
C35_HandleMergeUsesLenCf ==
    (HandleMerged /\ pin.id >= 0) =>
        LET direct == Vertex_merge(pin.keep, pin.rem, pin.nverts, pin.lenCf)
        IN  /\ pres.hr = direct.hr
            /\ pres.pos = direct.pos
            /\ pres.destroyed = direct.destroyed
            /\ pres.hr = "S_OK" => pres.id = -1

\* What the handle does: it merges with the default coefficient whatever the
\* caller passed, invalidates toRemove exactly on success, and changes
\* nothing on failure.
C35_HandleMergeUsesDefault ==
    HandleMerged =>
        /\ pres.hr = "S_OK" =>
              /\ pres.pos = pin.keep + Scaled(pin.rem - pin.keep, pin.dflt)
              /\ pres.id = -1 /\ pres.destroyed
        /\ pres.hr # "S_OK" =>
              pres.pos = pin.keep /\ pres.id = pin.id /\ ~pres.destroyed

\* A successful merge through handles with a coefficient other than the
\* default left the kept vertex away from the position the caller asked for.
C35_HandleMergedElsewhere ==
    /\ HandleMerged /\ pres.hr = "S_OK" /\ pres.id = -1
    /\ pin.lenCf # pin.dflt
    /\ pres.pos # pin.keep + Scaled(pin.rem - pin.keep, pin.lenCf)


\* ---------------------------------------------------------------------------
\* VERTEX_RND_IDX, Vertex::insert(Surface*, idx) and
\* Vertex::replace(Surface*, idx) (tfVertex.cpp)
\* ---------------------------------------------------------------------------

\* Largest surface list of the vertex and largest |idx| passed.
MaxListSize == 3

MaxIdx == 4

\* idx >= vec_size with idx an int and vec_size a size_t: idx is converted to
\* unsigned, so a negative idx compares as a huge value.
GeUnsigned(idx, vec_size) == idx < 0 \/ idx >= vec_size

\* The position Vertex::insert hands to surfaces.insert.
InsertPosition(idx, _idx) == _idx

\* The position Vertex::replace reads with surfaces[...].
ReplacePosition(idx, _idx) == idx

\* pin = [size, idx]: this->surfaces.size() and the idx argument.
InitWrap ==
    /\ pin \in [size : 0 .. MaxListSize, idx : -MaxIdx .. MaxIdx]
    /\ pres = NoResult
    /\ pot = NoPot
    /\ s_tasks = <<>> /\ gpuid = <<>> /\ did = 0 /\ tasks_cuda = <<>> /\ cellpairs = <<>>
    /\ StepIdle
    /\ refresh = NoRefresh /\ SideIdle

WrapFrame == UNCHANGED <<pot, pin, loadVars, stepVars>> /\ UNCHANGED <<refresh, sideVars>>

\* Vertex::insert(s, idx) is entered: int _idx = idx.
VertexInsert ==
    /\ pres = NoResult
    /\ pres' = [op |-> "insert", pc |-> "neg", _idx |-> pin.idx, acc |-> {}]
    /\ WrapFrame

\* Vertex::replace(toInsert, idx) is entered: int _idx = idx.
VertexReplace ==
    /\ pres = NoResult
    /\ pres' = [op |-> "replace", pc |-> "neg", _idx |-> pin.idx, acc |-> {}]
    /\ WrapFrame

\* One test of while(idx < 0) idx += vec_size, with its body when taken.
WrapNegative ==
    /\ pres # NoResult /\ pres.pc = "neg"
    /\ pres' = IF pres._idx < 0
               THEN [pres EXCEPT !._idx = pres._idx + pin.size]
               ELSE [pres EXCEPT !.pc = "pos"]
    /\ WrapFrame

\* One test of while(idx >= vec_size) idx -= vec_size, with its body when
\* taken.
WrapPositive ==
    /\ pres # NoResult /\ pres.pc = "pos"
    /\ pres' = IF GeUnsigned(pres._idx, pin.size)
               THEN [pres EXCEPT !._idx = pres._idx - pin.size]
               ELSE [pres EXCEPT !.pc = "access"]
    /\ WrapFrame

\* A loop that changes nothing and never ends has undefined behaviour: the
\* build may also take it to end and run what follows with idx as it is.
WrapAssumedFinite ==
    /\ pres # NoResult /\ pin.size = 0
    /\ \/ pres.pc = "neg" /\ pres._idx < 0
          /\ pres' = [pres EXCEPT !.pc = "pos"]
       \/ pres.pc = "pos" /\ GeUnsigned(pres._idx, pin.size)
          /\ pres' = [pres EXCEPT !.pc = "access"]
    /\ WrapFrame

\* surfaces.insert(surfaces.begin() + _idx, s), or
\* std::replace(..., surfaces[idx], toInsert), and the return.
WrapAccess ==
    /\ pres # NoResult /\ pres.pc = "access"
    /\ pres' = [pres EXCEPT !.pc = "done",
                   !.acc = IF pres.op = "insert"
                           THEN {InsertPosition(pin.idx, pres._idx)}
                           ELSE {ReplacePosition(pin.idx, pres._idx)}]
    /\ WrapFrame

NextWrap ==
    \/ VertexInsert
    \/ VertexReplace
    \/ WrapNegative
    \/ WrapPositive
    \/ WrapAssumedFinite
    \/ WrapAccess

WrapCalled == pres # NoResult

WrapReturned == pres # NoResult /\ pres.pc = "done"

\* The calling thread keeps running the function it entered; nothing makes
\* the build end a loop that never ends.
SpecWrap ==
    InitWrap /\ [][NextWrap]_vars
        /\ WF_vars(WrapNegative \/ WrapPositive \/ WrapAccess)

\* Every call returns.
WrapTerminates == WrapCalled ~> WrapReturned

\* Every access made so far is at a position 0 <= idx' < size.
AccessWrapped == pres # NoResult => pres.acc \subseteq 0 .. (pin.size - 1)

\* C36 (as stated): Vertex::insert(surface, idx) and
\* Vertex::replace(surface, idx) terminate for every idx and every size of
\* the surface list, the empty list included, and only ever access the list
\* at the wrapped position 0 <= idx' < size.
C36_WrapTerminatesInBounds ==
    [](AccessWrapped) /\ WrapTerminates

\* On a vertex with at least one surface both functions terminate.
C36_WrapTerminatesOnNonEmptyList ==
    (WrapCalled /\ pin.size > 0) ~> WrapReturned

\* On a vertex with at least one surface Vertex::insert accesses the list at
\* the wrapped position only, and the wrapped position is idx modulo size.
C36_InsertAccessWrapped ==
    (WrapReturned /\ pres.op = "insert" /\ pin.size > 0) =>
        pres.acc = {pin.idx % pin.size}

\* Vertex::replace reads surfaces[idx] with the idx it was given: with an idx
\* outside 0 .. size - 1 the read is outside the list.
C36_ReplaceReadsUnwrapped ==
    (WrapReturned /\ pres.op = "replace") => pres.acc = {pin.idx}

\* Vertex::replace has returned from a vertex with surfaces after reading
\* outside the list.
C36_ReplaceReadOutside ==
    /\ WrapReturned /\ pres.op = "replace" /\ pin.size > 0
    /\ ~(pres.acc \subseteq 0 .. (pin.size - 1))


\* ---------------------------------------------------------------------------
\* Per-cell offsets of the flattened particle buffer (engine_cuda_load,
\* engine_nonbond_cuda)
\* ---------------------------------------------------------------------------

\* Particle counts a cell can have.
CellCounts == {0, 2}

\* Values the offsets that were never written can hold.
StaleInds == {0, 1}

\* Task lists with at most one pair task.
OffsetTaskLists == {ts \in TaskLists : Len(ts) <= 2 * NrCells + 1}

\* Lines 3997-4011: cells i and j of a kept task are appended to the cell
\* list of the device unless already there.
AddCells(local, t) ==
    LET c1 == t.i >= 0 /\ ~\E k \in 1 .. Len(local) : local[k] = t.i
        c2 == t.j >= 0 /\ ~\E k \in 1 .. Len(local) : local[k] = t.j
    IN  local \o (IF c1 THEN <<t.i>> ELSE <<>>) \o (IF c2 THEN <<t.j>> ELSE <<>>)

\* e->cells_cuda_local[did] after the loop over the tasks kept for the device.
RECURSIVE cells_cuda_local(_, _)
cells_cuda_local(tc, local) ==
    IF tc = <<>> THEN local
    ELSE cells_cuda_local(Tail(tc), AddCells(local, Head(tc)))

\* Lines 3003-3008: counts is cleared and then loaded for the listed cells.
LoadedCounts(local, count) ==
    [c \in Cells |->
        IF \E k \in 1 .. Len(local) : local[k] = c THEN count[c] ELSE 0]

\* The term added to inds[k - 1] to give inds[k].
PrefixTerm_listed(counts, local, k) == counts[local[k]]

PrefixTerm(counts, local, k) == counts[k - 1]

\* Lines 3013-3016: inds[0] = 0 and inds[k] = inds[k-1] + counts[k-1] for
\* k below the number of listed cells; the other entries keep what the
\* allocation left in them.
RECURSIVE ComputedInds(_, _, _, _)
ComputedInds(counts, local, stale, k) ==
    IF k = 0 THEN 0
    ELSE IF k < Len(local)
         THEN ComputedInds(counts, local, stale, k - 1) + PrefixTerm(counts, local, k)
         ELSE stale

InitOffsets ==
    /\ s_tasks \in OffsetTaskLists
    /\ gpuid \in [Cells -> Devices]
    /\ did \in Devices
    /\ tasks_cuda = <<>>
    /\ cellpairs = <<>>
    /\ pot = NoPot
    /\ pin = [r |-> 1, ri |-> 1, rj |-> 1]
    /\ pres = NoResult
    /\ StepIdle
    /\ refresh = NoRefresh /\ SideIdle

\* engine_cuda_load for device did, with the cell list of the device.
OffsetsLoad ==
    /\ cellpairs = <<>>
    /\ tasks_cuda' = BuildTasksCuda(s_tasks, gpuid, did)
    /\ cellpairs' = BuildCellPairs(tasks_cuda')
    /\ UNCHANGED <<s_tasks, gpuid, did, potVars, stepVars>>
    /\ UNCHANGED <<refresh, sideVars>>

\* The part of a step that loads the counts and computes the offsets for
\* device did; count[c] is s->cells[c].count at the step.
OffsetsStep ==
    /\ cellpairs # <<>> /\ pres = NoResult
    /\ \E count \in [Cells -> CellCounts], stale \in StaleInds :
          LET local  == cells_cuda_local(tasks_cuda, <<>>)
              counts == LoadedCounts(local, count)
          IN  pres' = [local |-> local, counts |-> counts, count |-> count,
                       inds |-> [c \in Cells |->
                                    ComputedInds(counts, local, stale, c)]]
    /\ UNCHANGED <<pot, pin, loadVars, stepVars>>
    /\ UNCHANGED <<refresh, sideVars>>

NextOffsets == OffsetsLoad \/ OffsetsStep

SpecOffsets == InitOffsets /\ [][NextOffsets]_vars

OffsetsDone == pres # NoResult

\* The cells handled by the device.
ListedCells == {pres.local[k] : k \in 1 .. Len(pres.local)}

\* s->nr_parts, the number of particle slots copied to the device.
RECURSIVE CountSum(_, _)
CountSum(count, c) ==
    IF c = 0 THEN 0 ELSE count[c - 1] + CountSum(count, c - 1)

\* The slots of cell c in the flattened buffer.
SliceOf(c) == pres.inds[c] .. (pres.inds[c] + pres.counts[c] - 1)

\* C37: the offsets computed for a step partition the flattened particle
\* buffer: the slice [ind[c], ind[c] + count[c]) of every cell handled by the
\* device lies within the buffer and is disjoint from every other cell's
\* slice, and a cell is loaded with the count of the space.
C37_OffsetsPartitionBuffer ==
    OffsetsDone =>
        /\ \A c \in ListedCells :
              /\ pres.counts[c] = pres.count[c]
              /\ SliceOf(c) \subseteq 0 .. (CountSum(pres.count, NrCells) - 1)
        /\ \A c, d \in ListedCells : c # d => SliceOf(c) \cap SliceOf(d) = {}

\* Every device lists every cell, since the sort task of every cell is kept
\* for every device, so no offset of a listed cell is left unwritten.
C37_EveryCellListed == OffsetsDone => ListedCells = Cells

\* Offsets were computed for a device that lists the cells out of order and
\* holds two cells with particles, one of them owned by another device.
C37_Witness ==
    /\ OffsetsDone
    /\ pres.local[1] # 0
    /\ \E c, d \in ListedCells :
          /\ c # d /\ pres.counts[c] > 0 /\ pres.counts[d] > 0
          /\ gpuid[c] # did


\* ---------------------------------------------------------------------------
\* Threads of a block in cuda_sort_descending
\* ---------------------------------------------------------------------------

\* blockDim.x of the sorting block.
SortThreads == 1 .. (MaxCount + 1)

\* The strides of the steps: k = 1, 2, 4, ... below count for the first step
\* of a stage, and j = k/2, k/4, ..., 1 for its second steps.
RECURSIVE SortStrides(_, _)
SortStrides(count, k) ==
    IF k >= count THEN {} ELSE {k} \cup SortStrides(count, 2 * k)

\* hi = i & ~(k-1) and lo = i & (k-1) for a power of two k.
SortHi(i, k) == i - (i % k)

SortLo(i, k) == i % k

\* ind of iteration i.
SortInd_plain(i, k) == i

SortInd(i, k) == i + SortHi(i, k)

\* jnd of iteration i: 2*(hi+k) - lo - 1 in a first step, ind + j in a second.
SortJnd(i, k, second) ==
    IF second THEN SortInd(i, k) + k
    ELSE 2 * (SortHi(i, k) + k) - SortLo(i, k) - 1

\* The entries of a[] iteration i reads or writes: a[ind] and a[jnd], and
\* only when jnd < count.
Touches(count, k, second, i) ==
    IF SortJnd(i, k, second) < count
    THEN {SortInd(i, k), SortJnd(i, k, second)}
    ELSE {}

\* The iterations thread t of nthreads runs: i = t, t + blockDim.x, ...
IterationsOf(count, nthreads, t) ==
    {i \in 0 .. (count - 1) : i % nthreads = t}

\* The entries thread t touches between two barriers.
ThreadTouches(count, k, second, nthreads, t) ==
    UNION {Touches(count, k, second, i) : i \in IterationsOf(count, nthreads, t)}

\* The steps between two barriers of a sort of count entries: first steps of
\* stride k and second steps of stride j, j below some k.
SortPhases(count) ==
    {<<k, FALSE>> : k \in SortStrides(count, 1)}
        \cup {<<j, TRUE>> : j \in {j2 \in SortStrides(count, 1) :
                                      2 * j2 \in SortStrides(count, 1)}}

\* C38: within each compare-exchange phase of the sort, between two
\* barriers, no entry of the array is read or written by more than one
\* thread, for any number of entries and any number of threads, and every
\* entry touched is an entry of the array.
C38_PhaseThreadsDisjoint ==
    pres # NoResult =>
        LET count == Len(pin.xs)
        IN  \A ph \in SortPhases(count) : \A nthreads \in SortThreads :
                \A t, u \in 0 .. (nthreads - 1) :
                    /\ ThreadTouches(count, ph[1], ph[2], nthreads, t)
                          \subseteq 0 .. (count - 1)
                    /\ t # u =>
                          ThreadTouches(count, ph[1], ph[2], nthreads, t)
                              \cap ThreadTouches(count, ph[1], ph[2], nthreads, u) = {}

\* A cell was sorted whose second steps have two threads at work on entries
\* of the array, and whose last entries have no partner in a first step.
C38_Witness ==
    /\ pres # NoResult
    /\ LET count == Len(pin.xs)
       IN  /\ \E ph \in SortPhases(count) :
                 /\ ph[2]
                 /\ ThreadTouches(count, ph[1], TRUE, 2, 0) # {}
                 /\ ThreadTouches(count, ph[1], TRUE, 2, 1) # {}
           /\ \E k \in SortStrides(count, 1), i \in 0 .. (count - 1) :
                 SortInd(i, k) < count /\ Touches(count, k, FALSE, i) = {}

====
